---------------------------- MODULE Spec2Model ----------------------------
(***************************************************************************)
(* Portfolio analytics engine of the Mutual-Fund-Wealth-Management-System: *)
(* the Black-Litterman orchestrator (Anti/api/ml_models.py), its entry     *)
(* points, the SLSQP-based optimizers, the raptor recommender/backtest and *)
(* the Monte Carlo simulators.                                             *)
(*                                                                         *)
(* Numbers are exact rationals: a vector is [v |-> <<ints>>, d |-> den], a *)
(* matrix is [m |-> <<rows of ints>>, d |-> den].  SciPy's SLSQP and       *)
(* NumPy's inv are libraries: they are modelled by their contract (inv     *)
(* raises LinAlgError on a singular matrix; a converged SLSQP solve        *)
(* satisfies its constraints, a non-converged one returns its last         *)
(* iterate).                                                               *)
(***************************************************************************)
EXTENDS Integers, Sequences, FiniteSets, TLC

(***************************************************************************)
(* Bounds of the model.                                                    *)
(***************************************************************************)
MaxFunds == 2
MaxViews == 1
MaxPoints == 3
MaxSims == 11
MaxHorizon == 2
MaxSteps == 2

(***************************************************************************)
(* Local values: F applied to values that are computed once.               *)
(***************************************************************************)
Let(v, F(_)) == F(v)

Let2(a, b, F(_, _)) == F(a, b)

Let3(a, b, c, F(_, _, _)) == F(a, b, c)

(***************************************************************************)
(* Integer helpers.                                                        *)
(***************************************************************************)
Abs(x) == IF x < 0 THEN -x ELSE x

Sign(x) == IF x < 0 THEN -1 ELSE IF x > 0 THEN 1 ELSE 0

Min2(a, b) == IF a <= b THEN a ELSE b

Max2(a, b) == IF a >= b THEN a ELSE b

RECURSIVE GcdNat(_, _)
GcdNat(a, b) == IF b = 0 THEN a ELSE GcdNat(b, a % b)

Gcd(a, b) == GcdNat(Abs(a), Abs(b))

RECURSIVE SumSeq(_)
SumSeq(s) == IF s = <<>> THEN 0 ELSE Head(s) + SumSeq(Tail(s))

RECURSIVE GcdSeq(_)
GcdSeq(s) == IF s = <<>> THEN 0 ELSE Gcd(Head(s), GcdSeq(Tail(s)))

\* <<floor(m * r / b), (m * r) % b>> for 0 <= r < b and m >= 0, by repeated
\* addition so that no intermediate value leaves the 32-bit range
RECURSIVE MulDivMod(_, _, _, _, _)
MulDivMod(q, acc, r, b, m) ==
    IF m = 0 THEN <<q, acc>>
    ELSE IF acc >= b - r THEN MulDivMod(q + 1, acc - (b - r), r, b, m - 1)
    ELSE MulDivMod(q, acc + r, r, b, m - 1)

\* <<floor(x * 10^k), remainder>> for x = q + r/b, 0 <= r < b, digit by digit
RECURSIVE ShiftDiv(_, _, _, _)
ShiftDiv(q, r, b, k) ==
    IF k = 0 THEN <<q, r>>
    ELSE Let(MulDivMod(0, 0, r, b, 10),
             LAMBDA s : ShiftDiv(q * 10 + s[1], s[2], b, k - 1))

RECURSIVE ISqrtIn(_, _, _)
ISqrtIn(x, lo, hi) ==
    IF lo >= hi THEN lo
    ELSE Let((lo + hi + 1) \div 2,
             LAMBDA mid : IF mid * mid <= x THEN ISqrtIn(x, mid, hi)
                          ELSE ISqrtIn(x, lo, mid - 1))

\* floor(sqrt(x)) for 0 <= x
ISqrt(x) == ISqrtIn(x, 0, Min2(x, 46340))

\* the nearest integer to q + r/d (0 <= r < d), ties to the even one
HalfEven(q, r, d) ==
    IF r < d - r THEN q
    ELSE IF r > d - r THEN q + 1
    ELSE IF q % 2 = 0 THEN q ELSE q + 1

\* Python's round(x * 10^k) for x = num/den, den > 0
RoundScaled(num, den, k) ==
    Let(Max2(Gcd(num, den), 1), LAMBDA g :
    Let2(Abs(num) \div g, den \div g, LAMBDA n, d :
    Let(ShiftDiv(n \div d, n % d, d, k), LAMBDA sd :
        Sign(num) * HalfEven(sd[1], sd[2], d))))

\* round(10^k * sqrt(num/den)) for num >= 0, den > 0
RoundSqrtScaled(num, den, k) ==
    Let(Max2(Gcd(num, den), 1), LAMBDA g :
    Let2(num \div g, den \div g, LAMBDA n, d :
    Let(ShiftDiv(n \div d, n % d, d, 2 * k), LAMBDA s1 :
        \* floor(sqrt(floor(4 * 10^(2k) * n / d))), rounded to the nearest half
        (ISqrt(4 * s1[1] + MulDivMod(0, 0, s1[2], d, 4)[1]) + 1) \div 2)))

(***************************************************************************)
(* Exact vectors and matrices (numpy arrays of floats in the source).      *)
(***************************************************************************)
\* a sequence given by a function constructor, evaluated once
Force(s) == SubSeq(s, 1, Len(s))

Vec(v, d) == [v |-> Force(v), d |-> d]

Mat(m, d) == [m |-> Force([i \in 1..Len(m) |-> Force(m[i])]), d |-> d]

RECURSIVE GcdRows(_)
GcdRows(m) == IF m = <<>> THEN 0 ELSE Gcd(GcdSeq(Head(m)), GcdRows(Tail(m)))

\* x with numerators divided by g and the denominator made positive
VDiv(x, g) ==
    IF x.d < 0 THEN Vec([i \in 1..Len(x.v) |-> -(x.v[i] \div g)], -(x.d \div g))
    ELSE Vec([i \in 1..Len(x.v) |-> x.v[i] \div g], x.d \div g)

\* the same rational vector in lowest terms, denominator positive
VNorm(x) == VDiv(x, Max2(Gcd(GcdSeq(x.v), x.d), 1))

MDiv(A, g) ==
    IF A.d < 0
    THEN Mat([i \in 1..Len(A.m) |-> [j \in 1..Len(A.m[i]) |-> -(A.m[i][j] \div g)]],
             -(A.d \div g))
    ELSE Mat([i \in 1..Len(A.m) |-> [j \in 1..Len(A.m[i]) |-> A.m[i][j] \div g]],
             A.d \div g)

MNorm(A) == MDiv(A, Max2(Gcd(GcdRows(A.m), A.d), 1))

NRows(A) == Len(A.m)

NCols(A) == IF A.m = <<>> THEN 0 ELSE Len(A.m[1])

Dot(a, b) == SumSeq([i \in 1..Len(a) |-> a[i] * b[i]])

\* a rational <<num, den>> in lowest terms
Rat(q) == Let(Max2(Gcd(q[1], q[2]), 1), LAMBDA g : <<q[1] \div g, q[2] \div g>>)

\* a @ b for two vectors, as a rational <<num, den>>; common factors of one
\* vector's numerators and the other's denominator are cancelled first
VDot(x, y) ==
    Let2(Max2(Gcd(GcdSeq(x.v), y.d), 1), Max2(Gcd(GcdSeq(y.v), x.d), 1), LAMBDA g1, g2 :
        <<Dot([i \in 1..Len(x.v) |-> x.v[i] \div g1], [i \in 1..Len(y.v) |-> y.v[i] \div g2]),
          (x.d \div g2) * (y.d \div g1)>>)

\* A @ x
MatVec(A, x) ==
    VNorm(Vec([i \in 1..NRows(A) |-> Dot(A.m[i], x.v)], A.d * x.d))

Transpose(A) ==
    Mat([j \in 1..NCols(A) |-> [i \in 1..NRows(A) |-> A.m[i][j]]], A.d)

\* A @ B
MatMul(A, B) ==
    MNorm(Mat([i \in 1..NRows(A) |->
                 [j \in 1..NCols(B) |->
                    SumSeq([k \in 1..NCols(A) |-> A.m[i][k] * B.m[k][j]])]],
              A.d * B.d))

\* A + B
MatAdd(A, B) ==
    MNorm(Mat([i \in 1..NRows(A) |->
                 [j \in 1..NCols(A) |-> A.m[i][j] * B.d + B.m[i][j] * A.d]],
              A.d * B.d))

VecAdd(x, y) ==
    VNorm(Vec([i \in 1..Len(x.v) |-> x.v[i] * y.d + y.v[i] * x.d], x.d * y.d))

\* (num/den) * A
MatScale(num, den, A) ==
    MNorm(Mat([i \in 1..NRows(A) |-> [j \in 1..NCols(A) |-> num * A.m[i][j]]],
              den * A.d))

VecScale(num, den, x) ==
    VNorm(Vec([i \in 1..Len(x.v) |-> num * x.v[i]], den * x.d))

\* w @ A @ w as a rational <<num, den>>
QuadForm(w, A) == VDot(VNorm(w), MatVec(A, w))

\* the numerator of x @ A @ x over the denominator d * d * A.d, for integer
\* numerators x of a vector x/d
QuadNum(x, m) ==
    SumSeq([i \in 1..Len(x) |-> SumSeq([j \in 1..Len(x) |-> x[i] * m[i][j] * x[j]])])

\* np.diag(np.diag(A))
DiagOfDiag(A) ==
    Mat([i \in 1..NRows(A) |-> [j \in 1..NCols(A) |-> IF i = j THEN A.m[i][j] ELSE 0]],
        A.d)

\* np.eye(n)
Eye(n) == Mat([i \in 1..n |-> [j \in 1..n |-> IF i = j THEN 1 ELSE 0]], 1)

Minor(m, i, j) ==
    Force([r \in 1..(Len(m) - 1) |->
             Force([c \in 1..(Len(m) - 1) |->
                      m[IF r < i THEN r ELSE r + 1][IF c < j THEN c ELSE c + 1]])])

RECURSIVE Det(_)
Det(m) ==
    IF Len(m) = 0 THEN 1
    ELSE IF Len(m) = 1 THEN m[1][1]
    ELSE SumSeq([j \in 1..Len(m) |->
                   (IF j % 2 = 1 THEN 1 ELSE -1) * m[1][j] * Det(Minor(m, 1, j))])

Adjugate(m) ==
    Force([i \in 1..Len(m) |->
             Force([j \in 1..Len(m) |->
                      (IF (i + j) % 2 = 0 THEN 1 ELSE -1) * Det(Minor(m, j, i))])])

\* the numerators of A with their common factor g taken out: A = (g/d) * m
Primitive(A) ==
    Let(Max2(GcdRows(A.m), 1), LAMBDA g :
        [g |-> g,
         m |-> Mat([i \in 1..NRows(A) |-> [j \in 1..NCols(A) |-> A.m[i][j] \div g]], 1).m])

\* A is exactly singular: LAPACK meets a zero pivot
IsSingular(A) == Det(Primitive(A).m) = 0

\* numpy.linalg.inv(A) for a non-singular A: (d/g) * adj(m) / det(m)
InvOf(A) ==
    Let(Primitive(A), LAMBDA pr :
    Let2(Adjugate(pr.m), Det(pr.m), LAMBDA adj, det :
    Let(Max2(Gcd(A.d, det), 1), LAMBDA h :
        MNorm(MatScale(A.d \div h, pr.g, Mat(adj, det \div h))))))

\* two rationals/vectors/matrices in lowest terms are equal iff identical
VecEq(x, y) == VNorm(x) = VNorm(y)

MatEq(A, B) == MNorm(A) = MNorm(B)

(***************************************************************************)
(* Library contracts.                                                      *)
(***************************************************************************)
Raised(err) == [ok |-> FALSE, err |-> err]

\* a pseudo-inverse fallback: a singular matrix yields a matrix, not an error
LinalgInvPinv(A) ==
    IF IsSingular(A)
    THEN [ok |-> TRUE, err |-> "",
          val |-> Mat([i \in 1..NRows(A) |-> [j \in 1..NRows(A) |-> 0]], 1)]
    ELSE [ok |-> TRUE, err |-> "", val |-> InvOf(A)]

\* np.linalg.inv / numpy.linalg.inv: LinAlgError on a singular matrix
LinalgInv(A) ==
    IF IsSingular(A) THEN Raised("LinAlgError")
    ELSE [ok |-> TRUE, err |-> "", val |-> InvOf(A)]

\* Weights handed back by SLSQP are exact multiples of 1/WeightDen.
WeightDen == 6 * 100

\* the weight levels the max-Sharpe and risk-parity solves are drawn from:
\* 0, 0.5%, 1/3, 1/2, 2/3, 99.5%, 1
WeightLevels == {0, 3, 200, 300, 400, 597, 600}

\* the same without the levels next to the bounds: 0, 1/3, 1/2, 2/3, 1
CoarseLevels == {0, 200, 300, 400, 600}

RECURSIVE TuplesOver(_, _)
TuplesOver(S, n) ==
    IF n = 0 THEN {<<>>}
    ELSE {Append(t, x) : t \in TuplesOver(S, n - 1), x \in S}

\* all tuples of n naturals summing to total
RECURSIVE Compositions(_, _)
Compositions(n, total) ==
    IF n = 0 THEN (IF total = 0 THEN {<<>>} ELSE {})
    ELSE UNION {{Append(t, x) : t \in Compositions(n - 1, total - x)} : x \in 0..total}

\* x0 = np.ones(n_assets) / n_assets is a multiple of 1/WeightDen for n <= 6
EqualWeights(n) == [i \in 1..n |-> WeightDen \div n]

\* last iterates of a solve that did not converge: the start point, or a
\* point pushed to the upper or lower bounds (the equality constraint is
\* violated)
LastIterates(n, lo, hi) == {EqualWeights(n), [i \in 1..n |-> hi], [i \in 1..n |-> lo]}

\* What minimize(..., method='SLSQP', bounds, constraints=[sum(w) - 1 = 0])
\* may hand back for n variables: result.success and result.x.  On success
\* the bounds and the equality constraint hold (within the solver tolerance,
\* which is below the resolution of the model).
SlsqpSumOne(n, lo, hi, levels) ==
    {[success |-> TRUE, x |-> x] :
        x \in {t \in TuplesOver({l \in levels : lo <= l /\ l <= hi}, n) :
                  SumSeq(t) = WeightDen}}
    \cup {[success |-> FALSE, x |-> x] : x \in LastIterates(n, lo, hi)}

(***************************************************************************)
(* BlackLittermanModel (Anti/api/ml_models.py)                             *)
(***************************************************************************)
\* self.risk_aversion = 2.5 and self.tau = 0.05, as <<num, den>>
risk_aversion == <<5, 2>>

tau == <<1, 20>>

calculate_equilibrium_returns(weights, cov_matrix) ==
    VecScale(risk_aversion[1], risk_aversion[2], MatVec(cov_matrix, weights))

\* the last three statements of incorporate_views
PosteriorFrom(pi, cov_matrix, P, Q, tau_sigma_inv, omega_inv) ==
    Let(MatMul(Transpose(P), omega_inv), LAMBDA PtOi :
    Let(LinalgInv(MatAdd(tau_sigma_inv, MatMul(PtOi, P))), LAMBDA posterior_cov :
        IF ~posterior_cov.ok THEN Raised(posterior_cov.err)
        ELSE [ok |-> TRUE, err |-> "",
              mean |-> MatVec(posterior_cov.val,
                              VecAdd(MatVec(tau_sigma_inv, pi), MatVec(PtOi, Q))),
              cov  |-> MatAdd(posterior_cov.val, cov_matrix)]))

incorporate_views(pi, cov_matrix, P, Q) ==
    Let(MatScale(tau[1], tau[2], cov_matrix), LAMBDA tau_sigma :
    Let(DiagOfDiag(MatMul(MatMul(P, tau_sigma), Transpose(P))), LAMBDA omega :
    Let(LinalgInv(tau_sigma), LAMBDA tau_sigma_inv :
        IF ~tau_sigma_inv.ok THEN Raised(tau_sigma_inv.err)
        ELSE Let(LinalgInv(omega), LAMBDA omega_inv :
                 IF ~omega_inv.ok THEN Raised(omega_inv.err)
                 ELSE PosteriorFrom(pi, cov_matrix, P, Q,
                                    tau_sigma_inv.val, omega_inv.val)))))

\* r / sqrt(v) for rationals r and v, or 0 when v = 0: kept as the exact pair
\* (r, v) in lowest terms; its decimal rounding (round(., 3)) is not evaluated
RatioToSqrt(r, v) == IF v[1] <= 0 THEN <<0, 1>> ELSE <<Rat(r), Rat(v)>>

\* the dict optimize_portfolio returns for the weights w and result.success
PortfolioResult(w, expected_returns, cov_matrix, success) ==
    Let2(VDot(w, expected_returns), QuadForm(w, cov_matrix), LAMBDA port_return, port_var :
        [optimal_weights      |-> w,
         expected_return      |-> RoundScaled(port_return[1], port_return[2], 4),
         volatility           |-> RoundSqrtScaled(port_var[1], port_var[2], 4),
         sharpe_ratio         |-> RatioToSqrt(port_return, port_var),
         optimization_success |-> success])

\* every result is reported as converged
OptimizePortfolioAlwaysSuccess(expected_returns, cov_matrix, res) ==
    PortfolioResult(VNorm(Vec(res.x, WeightDen)), expected_returns, cov_matrix, TRUE)

\* res is what SLSQP handed back: [success, x]
optimize_portfolio(expected_returns, cov_matrix, res) ==
    PortfolioResult(VNorm(Vec(res.x, WeightDen)), expected_returns, cov_matrix, res.success)

\* np.linspace(lo, hi, n) over the common denominator d, as <<num, den>> pairs
linspace(lo, hi, d, n) ==
    Force([i \in 1..n |->
             IF n = 1 THEN <<lo, d>>
             ELSE <<lo * (n - 1) + (i - 1) * (hi - lo), d * (n - 1)>>])

RECURSIVE MinOf(_)
MinOf(s) == IF Len(s) = 1 THEN s[1] ELSE Min2(Head(s), MinOf(Tail(s)))

RECURSIVE MaxOf(_)
MaxOf(s) == IF Len(s) = 1 THEN s[1] ELSE Max2(Head(s), MaxOf(Tail(s)))

\* frontier weights are exact multiples of 1/FrontierDen(n_points): every
\* two-asset portfolio hitting a grid target lies on this lattice
FrontierDen(n_points) == 2 * Max2(n_points - 1, 1)

\* the lattice points satisfying bounds (0, 1), sum(w) = 1 and w @ mu = target
FrontierFeasible(expected_returns, target, fd) ==
    {x \in Compositions(Len(expected_returns.v), fd) :
        \* x @ mu / (fd * d) = target, the target being over a multiple of d
        Dot(x, expected_returns.v) * (target[2] \div expected_returns.d) = target[1] * fd}

\* a point of F whose variance no other point of F undercuts
ArgMinVariance(F, m) ==
    CHOOSE x \in F : \A y \in F : QuadNum(x, m) <= QuadNum(y, m)

\* the minimum-variance point among the feasible ones (what a converged
\* solve returns)
MinVariancePoint(expected_returns, cov_matrix, target, fd) ==
    ArgMinVariance(FrontierFeasible(expected_returns, target, fd), cov_matrix.m)

\* the record of one solve that returned x
SolveRecord(cov_matrix, target, fd, kind, x) ==
    [target |-> target, kind |-> kind, x |-> x, fd |-> fd,
     fun |-> QuadForm(Vec(x, fd), cov_matrix)]

\* One pass of the loop body over target_ret: kind is how minimize() ended
\* ("converged": result.success; "failed": it returned without success;
\* "raised": it threw).  x and fun are result.x and result.fun.
FrontierSolve(expected_returns, cov_matrix, target, fd, kind) ==
    SolveRecord(cov_matrix, target, fd, kind,
                IF kind = "converged"
                THEN MinVariancePoint(expected_returns, cov_matrix, target, fd)
                ELSE [i \in 1..Len(expected_returns.v) |-> fd])

\* a point is appended without looking at result.success
FrontierKeepsUnchecked(p) == p.kind # "raised"

\* try: ... if result.success: append ... except: continue
FrontierKeeps(p) == p.kind = "converged"

\* the entries appended for a kept point
FrontierEntry(p) ==
    [ret |-> RoundScaled(p.target[1], p.target[2], 4),
     vol |-> RoundSqrtScaled(p.fun[1], p.fun[2], 4),
     weights |-> Vec(p.x, p.fd)]

\* the three lists of the frontier and the solves they came from
FrontierLists(solves, entries) ==
    [ok |-> TRUE, err |-> "",
     returns      |-> Force([i \in 1..Len(entries) |-> entries[i].ret]),
     volatilities |-> Force([i \in 1..Len(entries) |-> entries[i].vol]),
     weights      |-> Force([i \in 1..Len(entries) |-> entries[i].weights]),
     solves       |-> solves]

generate_efficient_frontier(expected_returns, cov_matrix, n_points, kinds) ==
    IF Len(expected_returns.v) = 0 THEN Raised("ValueError")
    ELSE Let(linspace(MinOf(expected_returns.v), MaxOf(expected_returns.v),
                      expected_returns.d, n_points), LAMBDA target_returns :
         Let(Force([i \in 1..n_points |->
                      FrontierSolve(expected_returns, cov_matrix, target_returns[i],
                                    FrontierDen(n_points), kinds[i])]), LAMBDA solves :
         Let(SelectSeq(solves, FrontierKeeps), LAMBDA kept :
             FrontierLists(solves, Force([i \in 1..Len(kept) |-> FrontierEntry(kept[i])])))))

(***************************************************************************)
(* RiskParityOptimizer (Anti/api/ml_models.py)                             *)
(***************************************************************************)
\* the dict RiskParityOptimizer.optimize returns for the weights
RiskParityResult(weights, res, expected_returns, cov_matrix) ==
    Let3(VDot(weights, expected_returns), QuadForm(weights, cov_matrix),
         MatVec(cov_matrix, weights), LAMBDA port_return, port_var, marginal_contrib :
        [weights         |-> Force([i \in 1..Len(res.x) |-> RoundScaled(res.x[i], WeightDen, 4)]),
         expected_return |-> RoundScaled(port_return[1], port_return[2], 4),
         volatility      |-> RoundSqrtScaled(port_var[1], port_var[2], 4),
         risk_contributions |->
            Force([i \in 1..Len(res.x) |->
                     IF port_var[1] <= 0 THEN <<"nan">>
                     ELSE RatioToSqrt(<<weights.v[i] * marginal_contrib.v[i],
                                        weights.d * marginal_contrib.d>>, port_var)]),
         optimization_success |-> res.success])

RiskParityOptimize(expected_returns, cov_matrix, res) ==
    RiskParityResult(VNorm(Vec(res.x, WeightDen)), res, expected_returns, cov_matrix)

(***************************************************************************)
(* create_portfolio_optimizer and its entry points                         *)
(***************************************************************************)
\* dict.get(key, default)
DictGet(f, key, default) == IF key \in DOMAIN f THEN f[key] ELSE default

\* the rows data_processor.get_fund_by_id can find (fund_id -> row)
MfData ==
    [id \in {1, 2, 3} |->
       IF id = 1 THEN [fund_id |-> 1, scheme_name |-> "A", sd |-> 50]
       ELSE IF id = 2 THEN [fund_id |-> 2, scheme_name |-> "B", sd |-> 60]
       ELSE [fund_id |-> 3, scheme_name |-> "C", sd |-> 0]]

\* get_fund_by_id: the row, or None
None == [none |-> TRUE]

get_fund_by_id(fid) == IF fid \in DOMAIN MfData THEN MfData[fid] ELSE None

\* the views an investor may send: funds are 0-based indices
ViewSet ==
    {[funds |-> <<0>>,    return |-> <<1, 10>>],
     [funds |-> <<0, 1>>, return |-> <<1, 20>>],
     [funds |-> <<0, 0>>, return |-> <<1, 10>>],
     [funds |-> <<>>,     return |-> <<1, 10>>]}

RECURSIVE ProdSeq(_)
ProdSeq(s) == IF s = <<>> THEN 1 ELSE Head(s) * ProdSeq(Tail(s))

\* numpy index i of an axis of length n: negative indices count from the end
IndexOk(i, n) == -n <= i /\ i < n

NpIndex(i, n) == IF i < 0 THEN i + n + 1 ELSE i + 1

\* the rows of P over the common denominator ProdSeq(lens)
RowsOfP(investor_views, n_funds, lens) ==
    Mat([i \in 1..Len(investor_views) |->
           [j \in 1..n_funds |->
              IF \E k \in 1..Len(investor_views[i].funds) :
                    NpIndex(investor_views[i].funds[k], n_funds) = j
              THEN ProdSeq(lens) \div lens[i] ELSE 0]],
        ProdSeq(lens))

\* P[i, fund_idx] = 1 / len(view['funds']) for fund_idx in view['funds']
BuildP(investor_views, n_funds) ==
    RowsOfP(investor_views, n_funds,
            Force([i \in 1..Len(investor_views) |-> Max2(Len(investor_views[i].funds), 1)]))

\* the entries of Q over the common denominator ProdSeq(dens)
EntriesOfQ(investor_views, dens) ==
    Vec([i \in 1..Len(investor_views) |->
           investor_views[i].return[1] * (ProdSeq(dens) \div dens[i])],
        ProdSeq(dens))

\* Q[i] = view['return']
BuildQ(investor_views) ==
    EntriesOfQ(investor_views,
               Force([i \in 1..Len(investor_views) |-> investor_views[i].return[2]]))

ViewsIndexOk(investor_views, n_funds) ==
    \A i \in 1..Len(investor_views) :
       \A k \in 1..Len(investor_views[i].funds) :
          IndexOk(investor_views[i].funds[k], n_funds)

\* list.sort(key=weight, reverse=True): stable, largest weight first
RECURSIVE InsertDesc(_, _)
InsertDesc(sorted, a) ==
    IF sorted = <<>> THEN <<a>>
    ELSE IF Head(sorted).weight >= a.weight THEN <<Head(sorted)>> \o InsertDesc(Tail(sorted), a)
    ELSE <<a>> \o sorted

RECURSIVE SortDesc(_)
SortDesc(s) == IF s = <<>> THEN <<>> ELSE InsertDesc(SortDesc(SubSeq(s, 1, Len(s) - 1)), s[Len(s)])

\* an entry for every weight, whatever its size
RECURSIVE AllocationsFromAll(_, _, _)
AllocationsFromAll(fund_data, optimal_weights, i) ==
    IF i > Len(optimal_weights.v) THEN <<>>
    ELSE <<[fund_id     |-> DictGet(fund_data[i], "fund_id", i - 1),
            scheme_name |-> DictGet(fund_data[i], "scheme_name", "Fund"),
            weight      |-> RoundScaled(optimal_weights.v[i], optimal_weights.d, 4)]>>
         \o AllocationsFromAll(fund_data, optimal_weights, i + 1)

\* the allocation entries of the weights above the 1% threshold, in fund order
RECURSIVE AllocationsFrom(_, _, _)
AllocationsFrom(fund_data, optimal_weights, i) ==
    IF i > Len(optimal_weights.v) THEN <<>>
    ELSE (IF 100 * optimal_weights.v[i] > optimal_weights.d
          THEN <<[fund_id     |-> DictGet(fund_data[i], "fund_id", i - 1),
                  scheme_name |-> DictGet(fund_data[i], "scheme_name", "Fund"),
                  weight      |-> RoundScaled(optimal_weights.v[i], optimal_weights.d, 4)]>>
          ELSE <<>>)
         \o AllocationsFrom(fund_data, optimal_weights, i + 1)

\* the view formula is applied even without views (P = I, Q = pi)
PosteriorStageAlways(pi, cov_matrix, investor_views, n_funds) ==
    IF Len(investor_views) = 0
    THEN incorporate_views(pi, cov_matrix, Eye(n_funds), pi)
    ELSE IF ~ViewsIndexOk(investor_views, n_funds) THEN Raised("IndexError")
    ELSE incorporate_views(pi, cov_matrix, BuildP(investor_views, n_funds),
                           BuildQ(investor_views))

\* if investor_views: build P, Q and incorporate them; else (pi, cov_matrix)
PosteriorStage(pi, cov_matrix, investor_views, n_funds) ==
    IF Len(investor_views) = 0
    THEN [ok |-> TRUE, err |-> "", mean |-> pi, cov |-> cov_matrix]
    ELSE IF ~ViewsIndexOk(investor_views, n_funds) THEN Raised("IndexError")
    ELSE incorporate_views(pi, cov_matrix, BuildP(investor_views, n_funds),
                           BuildQ(investor_views))

\* n_points: int = 50 in the source; the model cuts the grid to MaxPoints
DefaultPoints == MaxPoints

\* volatilities = sd / 100; correlations = 0.5 off the diagonal;
\* cov_matrix = np.outer(volatilities, volatilities) * correlations
CovMatrixOf(sds) ==
    MNorm(Mat([i \in 1..Len(sds) |->
                 [j \in 1..Len(sds) |-> (IF i = j THEN 2 ELSE 1) * sds[i] * sds[j]]],
              2 * 100 * 100))

\* the locals of a call that got as far as the views
OrchLocals(cov_matrix, pi, investor_views, n_funds) ==
    IF Len(investor_views) > 0 /\ ViewsIndexOk(investor_views, n_funds)
    THEN [cov_matrix |-> cov_matrix, pi |-> pi, has_views |-> TRUE,
          P |-> BuildP(investor_views, n_funds), Q |-> BuildQ(investor_views)]
    ELSE [cov_matrix |-> cov_matrix, pi |-> pi, has_views |-> Len(investor_views) > 0]

\* the statements after the posterior: optimize, frontier, allocations
OrchFinish(fund_data, base, bl, optimization_result, frontier) ==
    IF ~frontier.ok
    THEN [ok |-> FALSE, err |-> frontier.err,
          trace |-> base @@ [stage |-> "generate_efficient_frontier",
                             posterior_returns |-> bl.mean, posterior_cov |-> bl.cov,
                             optimization_result |-> optimization_result]]
    ELSE [ok |-> TRUE, err |-> "",
          value |->
            [allocations |->
               SortDesc(AllocationsFrom(fund_data, optimization_result.optimal_weights, 1)),
             portfolio_metrics |->
               [expected_return |-> optimization_result.expected_return,
                volatility      |-> optimization_result.volatility,
                sharpe_ratio    |-> optimization_result.sharpe_ratio],
             efficient_frontier |->
               [returns      |-> frontier.returns,
                volatilities |-> frontier.volatilities,
                weights      |-> frontier.weights]],
          trace |-> base @@ [stage |-> "done",
                             posterior_returns |-> bl.mean, posterior_cov |-> bl.cov,
                             optimizer_input |-> <<bl.mean, bl.cov>>,
                             frontier_input  |-> <<bl.mean, bl.cov>>,
                             optimization_result |-> optimization_result,
                             solves |-> frontier.solves]]

\* sol.ms is what the max-Sharpe solve hands back, sol.fr how each frontier
\* solve ends.  The result is [ok, err, value, trace]: value is the returned
\* dict, trace the locals of the call.
create_portfolio_optimizer(fund_data, investor_views, sol) ==
    Let2(Len(fund_data),
         CovMatrixOf([i \in 1..Len(fund_data) |-> DictGet(fund_data[i], "sd", 15)]),
         LAMBDA n_funds, cov_matrix :
    Let(calculate_equilibrium_returns(Vec([i \in 1..n_funds |-> 1], Max2(n_funds, 1)),
                                      cov_matrix), LAMBDA pi :
    Let2(PosteriorStage(pi, cov_matrix, investor_views, n_funds),
         OrchLocals(cov_matrix, pi, investor_views, n_funds), LAMBDA bl, base :
        IF ~bl.ok
        THEN [ok |-> FALSE, err |-> bl.err,
              trace |-> base @@ [stage |-> "incorporate_views"]]
        ELSE OrchFinish(fund_data, base, bl,
                        optimize_portfolio(bl.mean, bl.cov, sol.ms),
                        generate_efficient_frontier(bl.mean, bl.cov, DefaultPoints, sol.fr)))))

\* the funds of a list of ids that the data processor finds
FundsOf(fund_ids) ==
    SelectSeq([i \in 1..Len(fund_ids) |-> get_fund_by_id(fund_ids[i])], LAMBDA f : f # None)

\* alloc['investment_amount'] = round(investment_amount * alloc['weight'] / 100, 2)
WithAmounts(allocations, investment_amount) ==
    Force([i \in 1..Len(allocations) |->
             allocations[i] @@
             [investment_amount |->
                RoundScaled(investment_amount * allocations[i].weight, 10000, 2)]])

\* the engine's result for what the orchestrator handed back
EngineResult(r, investment_amount) ==
    IF ~r.ok THEN [ok |-> FALSE, err |-> r.err, called |-> TRUE, trace |-> r.trace]
    ELSE [ok |-> TRUE, err |-> "", called |-> TRUE, trace |-> r.trace,
          value |-> [r.value EXCEPT
                       !.allocations = WithAmounts(r.value.allocations, investment_amount)]]

\* FundRecommendationEngine.optimize_portfolio: the dict it returns, or the
\* exception that leaves it
EngineOptimizePortfolio(fund_ids, investment_amount, investor_views, sol) ==
    Let(FundsOf(fund_ids), LAMBDA funds :
        IF Len(funds) < 2
        THEN [ok |-> TRUE, err |-> "", called |-> FALSE,
              value |-> [error |-> "At least 2 funds required for portfolio optimization"]]
        ELSE EngineResult(create_portfolio_optimizer(funds, investor_views, sol),
                          investment_amount))

\* the response of the endpoint for what the orchestrator handed back
ApiResult(r) ==
    IF ~r.ok THEN [ok |-> FALSE, err |-> r.err, called |-> TRUE, trace |-> r.trace]
    ELSE [ok |-> TRUE, err |-> "", called |-> TRUE, trace |-> r.trace,
          value |->
            [http |-> 200, success |-> TRUE,
             data |-> [efficient_frontier |-> r.value.efficient_frontier,
                       optimal_portfolio |->
                         [allocations |-> r.value.allocations,
                          metrics     |-> r.value.portfolio_metrics]]]]

\* POST /api/efficient-frontier: the HTTP status and body, or the exception
\* that leaves the view function
ApiEfficientFrontier(fund_ids, sol) ==
    Let(FundsOf(fund_ids), LAMBDA funds :
        IF Len(funds) < 2
        THEN [ok |-> TRUE, err |-> "", called |-> FALSE,
              value |-> [http |-> 400, success |-> FALSE,
                         error |-> "At least 2 valid funds required"]]
        ELSE ApiResult(create_portfolio_optimizer(funds, <<>>, sol)))

(***************************************************************************)
(* raptor: black_litterman.py, recommender.py, backtest.py                 *)
(***************************************************************************)
\* A = inv(inv_tau_cov + P.T @ inv_middle @ P); mu = A @ b
BlMuFrom(pi, P, Q, inv_tau_cov, PtM) ==
    Let(LinalgInv(MatAdd(inv_tau_cov, MatMul(PtM, P))), LAMBDA A :
        IF ~A.ok THEN Raised(A.err)
        ELSE [ok |-> TRUE, err |-> "",
              mu |-> MatVec(A.val, VecAdd(MatVec(inv_tau_cov, pi), MatVec(PtM, Q)))])

black_litterman_expected_returns(bl_tau, pi, P, Q, cov) ==
    Let(MatScale(bl_tau[1], bl_tau[2], cov), LAMBDA tau_cov :
    Let(LinalgInv(tau_cov), LAMBDA inv_tau_cov :
        IF ~inv_tau_cov.ok THEN Raised(inv_tau_cov.err)
        ELSE Let(LinalgInv(MatMul(MatMul(P, tau_cov), Transpose(P))), LAMBDA inv_middle :
                 IF ~inv_middle.ok THEN Raised(inv_middle.err)
                 ELSE BlMuFrom(pi, P, Q, inv_tau_cov.val,
                               MatMul(Transpose(P), inv_middle.val)))))

\* w / w.sum() when the sum is not (numerically) zero
SumToOne(w) == IF SumSeq(w.v) # 0 THEN VNorm(Vec(w.v, SumSeq(w.v))) ELSE w

\* w = inv(risk_aversion * cov) @ expected_returns, normalized if possible
markowitz_weights(expected_returns, cov, ra) ==
    Let(LinalgInv(MatScale(ra[1], ra[2], cov)), LAMBDA i :
        IF ~i.ok THEN Raised(i.err)
        ELSE [ok |-> TRUE, err |-> "", w |-> SumToOne(MatVec(i.val, expected_returns))])

\* the priors estimate_prior can hand back for the schemes of the dataset:
\* scheme codes, annualised mean returns pi, annualised covariance cov
RaptorPriors ==
    {[codes |-> <<"S1", "S2">>, pi |-> Vec(<<1, 2>>, 10),
      cov |-> Mat(<<<<4, 1>>, <<1, 9>>>>, 100)],
     [codes |-> <<"S1", "S2">>, pi |-> Vec(<<-1, 2>>, 10),
      cov |-> Mat(<<<<4, 1>>, <<1, 9>>>>, 100)],
     \* two schemes with identical return histories: cov is singular
     [codes |-> <<"S1", "S2">>, pi |-> Vec(<<1, 1>>, 10),
      cov |-> Mat(<<<<4, 4>>, <<4, 4>>>>, 100)],
     [codes |-> <<"S1">>, pi |-> Vec(<<1>>, 10), cov |-> Mat(<<<<4>>>>, 100)],
     \* no scheme has enough observations
     [codes |-> <<>>, pi |-> Vec(<<>>, 1), cov |-> Mat(<<>>, 1)]}

\* tau: float = 0.025 and risk_aversion: float = 3.0
RaptorTau == <<1, 40>>

RaptorRiskAversion == <<3, 1>>

\* the numerators divided by their sum when it is positive
OverSum(zeroed, d) ==
    IF SumSeq(zeroed) > 0 THEN Vec(zeroed, SumSeq(zeroed)) ELSE Vec(zeroed, d)

\* the weights divided by their sum when it is positive, the negative ones
\* kept
NormalizeAllocKeepsNegatives(w) == OverSum(w.v, w.d)

\* alloc[k] < 1e-6 -> 0.0, then divide by the sum when it is positive; the
\* result is the numerators over one denominator
NormalizeAlloc(w) ==
    OverSum(Force([i \in 1..Len(w.v) |-> IF w.v[i] * 1000000 < w.d THEN 0 ELSE w.v[i]]), w.d)

\* sorted(alloc.items(), key=weight, reverse=True)[:top_k]
\* (a negative top_k counts from the end of the list)
TopAlloc(codes, alloc, top_k) ==
    SubSeq(SortDesc([i \in 1..Len(codes) |-> [scheme_code |-> codes[i], weight |-> alloc.v[i]]]),
           1, IF top_k >= 0 THEN Min2(top_k, Len(codes)) ELSE Max2(Len(codes) + top_k, 0))

\* the returned dict and the locals, for the normalized allocation
RecommendResult(prior, amount, nav, posterior, weights, alloc, top_alloc) ==
    [ok |-> TRUE, err |-> "",
     value |->
       [amount |-> amount,
        allocations |->
          Force([i \in 1..Len(top_alloc) |->
            [scheme_code |-> top_alloc[i].scheme_code,
             weight |-> Rat(<<top_alloc[i].weight, alloc.d>>),
             allocated_amount |-> Rat(<<top_alloc[i].weight * amount, alloc.d>>)]]),
        details |->
          Force([i \in 1..Len(top_alloc) |->
            [scheme_code |-> top_alloc[i].scheme_code,
             weight |-> Rat(<<top_alloc[i].weight, alloc.d>>),
             mc_30d_median_last |->
               IF nav[top_alloc[i].scheme_code] = "ok" THEN "value" ELSE "None",
             gbm_30d_last |->
               IF nav[top_alloc[i].scheme_code] = "ok" THEN "value" ELSE "None"]]),
        n_candidates |-> Len(prior.codes)],
     trace |-> [pi |-> prior.pi, cov |-> prior.cov, stage |-> "done",
                posterior |-> posterior,
                markowitz_input |-> <<posterior, prior.cov>>,
                weights |-> weights,
                \* the schemes whose details were computed in the except branch
                except_taken |->
                  SelectSeq([i \in 1..Len(top_alloc) |-> top_alloc[i].scheme_code],
                            LAMBDA c : nav[c] # "ok")]]

\* the statements after the posterior
RecommendFrom(prior, amount, top_k, nav, posterior, weights) ==
    IF ~weights.ok
    THEN [ok |-> FALSE, err |-> weights.err,
          trace |-> [pi |-> prior.pi, cov |-> prior.cov, stage |-> "markowitz_weights",
                     posterior |-> posterior]]
    ELSE Let(NormalizeAlloc(weights.w), LAMBDA alloc :
             RecommendResult(prior, amount, nav, posterior, weights.w, alloc,
                             TopAlloc(prior.codes, alloc, top_k)))

\* nav maps a scheme code to how load_nav_timeseries ends for it: "ok" or
\* the name of the exception it raises
recommend_black_litterman(prior, amount, top_k, nav) ==
    IF Len(prior.codes) = 0
    THEN [ok |-> FALSE, err |-> "ValueError", trace |-> [stage |-> "no_schemes"]]
    ELSE Let(black_litterman_expected_returns(RaptorTau, prior.pi, Eye(Len(prior.codes)),
                                              prior.pi, prior.cov), LAMBDA posterior :
             IF ~posterior.ok
             THEN [ok |-> FALSE, err |-> posterior.err,
                   trace |-> [pi |-> prior.pi, cov |-> prior.cov,
                              stage |-> "black_litterman_expected_returns"]]
             ELSE RecommendFrom(prior, amount, top_k, nav, posterior.mu,
                                markowitz_weights(posterior.mu, prior.cov, RaptorRiskAversion)))

\* the numbers of NAV rows a scheme can have inside the next period
FutureRows == {0, 1, 2, 3}

\* a pass that takes a step without future NAV data for a period of no point
StepOutcomeKeepsEmpty(rec, future) ==
    IF ~rec.ok THEN [period |-> FALSE, pnav |-> 0, except_taken |-> <<rec.err>>]
    ELSE IF Len(rec.value.allocations) = 0
         THEN [period |-> FALSE, pnav |-> 0, except_taken |-> <<>>]
    ELSE IF future = 1
         THEN [period |-> FALSE, pnav |-> 0, except_taken |-> <<"IndexError">>]
    ELSE [period |-> TRUE, pnav |-> Max2(future - 1, 0), except_taken |-> <<>>]

\* what one pass of the loop does with the recommendation rec: no weights
\* (no allocation, or no NAV row in the next period) continue; a single NAV
\* row leaves no daily return, port_nav.iloc[-1] raises IndexError and the
\* outer except continues; otherwise the period and its pnav of
\* future - 1 points are appended
StepOutcome(rec, future) ==
    IF ~rec.ok THEN [period |-> FALSE, pnav |-> 0, except_taken |-> <<rec.err>>]
    ELSE IF future = 0 \/ Len(rec.value.allocations) = 0
         THEN [period |-> FALSE, pnav |-> 0, except_taken |-> <<>>]
    ELSE IF future = 1
         THEN [period |-> FALSE, pnav |-> 0, except_taken |-> <<"IndexError">>]
    ELSE [period |-> TRUE, pnav |-> future - 1, except_taken |-> <<>>]

\* one pass of the loop over rebalance_dates: future is the number of NAV
\* rows the allocated schemes have inside the next period
BacktestStep(prior, top_k, future) ==
    StepOutcome(recommend_black_litterman(prior, 1, top_k, [c \in {"S1", "S2"} |-> "ok"]),
                future)

RECURSIVE FlattenSeq(_)
FlattenSeq(ss) == IF ss = <<>> THEN <<>> ELSE Head(ss) \o FlattenSeq(Tail(ss))

\* the keys of the metrics of portfolio_performance_from_navs
MetricKeys ==
    {"cumulative_return", "annualized_return", "annualized_vol", "sharpe", "max_drawdown"}

\* pd.concat(portfolio_nav_series): the points of the periods, one after
\* the other, each with the step it comes from
Combined(steps, periods) ==
    FlattenSeq([k \in 1..Len(periods) |->
                  [d \in 1..steps[periods[k]].pnav |-> [step |-> periods[k], day |-> d]]])

\* the end of the backtest, for the outcomes of its steps: the metrics of
\* a combined series of one point have no daily return, and
\* port_nav.iloc[-1] raises IndexError
BacktestResult(steps, periods) ==
    IF periods = <<>>
    THEN [ok |-> FALSE, err |-> "ValueError",
          trace |-> [except_taken |->
                       FlattenSeq([t \in 1..Len(steps) |-> steps[t].except_taken])]]
    ELSE IF Len(Combined(steps, periods)) = 1
    THEN [ok |-> FALSE, err |-> "IndexError",
          trace |-> [except_taken |->
                       FlattenSeq([t \in 1..Len(steps) |-> steps[t].except_taken])]]
    ELSE [ok |-> TRUE, err |-> "",
          value |-> [portfolio_nav |-> Combined(steps, periods),
                     metrics |-> MetricKeys,
                     periods |-> periods],
          trace |-> [except_taken |->
                       FlattenSeq([t \in 1..Len(steps) |-> steps[t].except_taken])]]

\* enough: len(daily_dates) >= lookback_days + rebalance_freq_days; futures
\* has one entry per rebalance date
backtest_black_litterman(prior, enough, top_k, futures) ==
    IF ~enough THEN [ok |-> FALSE, err |-> "ValueError", trace |-> [except_taken |-> <<>>]]
    ELSE Let(Force([t \in 1..Len(futures) |-> BacktestStep(prior, top_k, futures[t])]),
             LAMBDA steps :
               BacktestResult(steps,
                              SelectSeq([t \in 1..Len(futures) |-> t],
                                        LAMBDA t : steps[t].period)))

(***************************************************************************)
(* Monte Carlo simulators: MonteCarloSimulator (Anti/api/ml_models.py) and *)
(* monte_carlo_forecast (raptor/src/monte_carlo.py).  A generator is its   *)
(* position in a fixed stream of shocks; a simulated price is kept as its  *)
(* exponent: the number t of drift steps and the sum z of the shocks that  *)
(* sigma lets through, i.e. S0 * exp(t * drift + sigma * sqrt(dt) * z).    *)
(***************************************************************************)
\* np.random.choice(self.n_simulations, 10, replace=False)
SampleCount == 10

ShockTable == <<1, -1, 0, 1, 1, -1, 0>>

RngPeriod == Len(ShockTable)

\* the k-th draw (k >= 1) of a generator at position pos
Draw(pos, k) == ShockTable[((pos + k - 1) % RngPeriod) + 1]

\* the shocks enter the path whatever sigma is
PricePathUnscaled(pos, skip, horizon, sigma) ==
    Force([t \in 1..horizon |->
             [t |-> t, z |-> SumSeq([k \in 1..t |-> Draw(pos, skip + k)])]])

\* np.cumsum(log_returns, axis=1) for one path whose draws start after `skip`:
\* diffusion = sigma * np.sqrt(dt) * Z, summed over the first t steps
PricePath(pos, skip, horizon, sigma) ==
    Force([t \in 1..horizon |->
             [t |-> t, z |-> SumSeq([k \in 1..t |-> sigma * Draw(pos, skip + k)])]])

\* MonteCarloSimulator.simulate_gbm: the (n_simulations, time_horizon) array
\* of prices and the global generator after the draw
simulate_gbm(self, pos, S0, mu, sigma) ==
    IF self.n_simulations < 0 \/ self.time_horizon < 0
    THEN [ok |-> FALSE, err |-> "ValueError", rng |-> pos]
    ELSE [ok |-> TRUE, err |-> "",
          price_paths |->
            Force([i \in 1..self.n_simulations |->
                     PricePath(pos, (i - 1) * self.time_horizon, self.time_horizon, sigma)]),
          rng |-> (pos + self.n_simulations * self.time_horizon) % RngPeriod]

\* the index lists np.random.choice(n, 10, replace=False) may draw: the first
\* SampleCount indices, or the last ones backwards
SampleChoices(n) ==
    {[k \in 1..SampleCount |-> k], [k \in 1..SampleCount |-> n + 1 - k]}

\* 1000 * exp(k / 2) for k = -18 .. 12, rounded
ExpHalfMilli ==
    <<0, 0, 0, 1, 1, 2, 2, 4, 7, 11, 18, 30, 50, 82, 135, 223, 368, 607, 1000,
      1649, 2718, 4482, 7389, 12182, 20086, 33115, 54598, 90017, 148413, 244692, 403429>>

\* the exponent of a point in half log units: t steps of drift
\* mu - sigma^2 / 2 and the shocks z (mu and sigma per step, in log units)
HalfLog(point, mu, sigma) == point.t * (2 * mu - sigma * sigma) + 2 * point.z

\* S0 * np.exp(...) of a point, in hundredths of a currency unit
PriceCents(S0, mu, sigma, point) ==
    (S0 * ExpHalfMilli[HalfLog(point, mu, sigma) + 19]) \div 10

RECURSIVE InsertAsc(_, _)
InsertAsc(sorted, a) ==
    IF sorted = <<>> THEN <<a>>
    ELSE IF Head(sorted) <= a THEN <<Head(sorted)>> \o InsertAsc(Tail(sorted), a)
    ELSE <<a>> \o sorted

RECURSIVE SortAsc(_)
SortAsc(s) == IF s = <<>> THEN <<>> ELSE InsertAsc(SortAsc(Tail(s)), Head(s))

\* np.percentile(values, q) (linear interpolation) of a sorted non-empty
\* list, as the numerator over 100
PercentileOfSorted(sorted, q) ==
    Let2(((Len(sorted) - 1) * q) \div 100, ((Len(sorted) - 1) * q) % 100, LAMBDA lo, r :
        sorted[lo + 1] * (100 - r) + sorted[Min2(lo + 2, Len(sorted))] * r)

\* final_values[final_values < percentiles['5th']]: the strict comparison
TailBelow(values, p5) == SelectSeq(values, LAMBDA v : 100 * v < p5)

\* final_values[final_values <= percentiles['5th']]
TailAtOrBelow(values, p5) == SelectSeq(values, LAMBDA v : 100 * v <= p5)

\* current_nav - np.mean(tail), rounded to 2 decimals; np.mean of an empty
\* array is NaN
CvarOf(tail, nav_cents) ==
    IF tail = <<>> THEN [nan |-> TRUE]
    ELSE [nan |-> FALSE,
          value |-> RoundScaled(nav_cents * Len(tail) - SumSeq(tail), Len(tail), 0)]

\* the risk_metrics of predict_nav for the terminal values (in hundredths)
\* and current_nav: var_95 and cvar_95 in hundredths of a currency unit,
\* probability_of_loss in hundredths of a percent
RiskMetricsOf(values, nav_cents, p5) ==
    [var_95  |-> RoundScaled(100 * nav_cents - p5, 100, 0),
     cvar_95 |-> CvarOf(TailAtOrBelow(values, p5), nav_cents),
     probability_of_loss |->
        RoundScaled(100 * Cardinality({i \in 1..Len(values) : values[i] < nav_cents}),
                    Len(values), 2)]

RiskMetrics(values, nav_cents) ==
    RiskMetricsOf(values, nav_cents, PercentileOfSorted(SortAsc(values), 5))

\* the 'percentiles' of predict_nav, rounded to 2 decimals
PercentilesOfSorted(sorted) ==
    [q \in {5, 25, 50, 75, 95} |-> RoundScaled(PercentileOfSorted(sorted, q), 100, 0)]

PercentilesOf(values) == PercentilesOfSorted(SortAsc(values))

\* the terminal values of the simulated paths, in hundredths
TerminalCents(price_paths, current_nav, mu, sigma, days) ==
    Force([i \in 1..Len(price_paths) |->
             PriceCents(current_nav, mu, sigma, price_paths[i][days])])

\* simulations[sample_indices, :] with one index drawn again and again
SamplePathsRepeated(price_paths, sample_indices) ==
    Force([k \in 1..SampleCount |-> price_paths[sample_indices[1]]])

\* simulations[sample_indices, :].tolist()
SamplePaths(price_paths, sample_indices) ==
    Force([k \in 1..SampleCount |-> price_paths[sample_indices[k]]])

\* predict_nav after self.time_horizon = days and the call of simulate_gbm:
\* entered is the simulator as the call changed it
PredictFrom(self, entered, simulations, current_nav, mu, sigma, days, empty, sample) ==
    IF ~simulations.ok
    THEN [ok |-> FALSE, err |-> simulations.err, self |-> entered, rng |-> simulations.rng,
          stages |-> <<>>]
    ELSE IF days = 0
    THEN \* simulations[:, -1] on an axis of length 0
         [ok |-> FALSE, err |-> "IndexError", self |-> entered, rng |-> simulations.rng,
          stages |-> <<"simulate_gbm">>]
    ELSE IF self.n_simulations = 0 /\ empty = "raises"
    THEN [ok |-> FALSE, err |-> "IndexError", self |-> entered, rng |-> simulations.rng,
          stages |-> <<"simulate_gbm">>]
    ELSE IF self.n_simulations < SampleCount
    THEN \* np.random.choice cannot take SampleCount distinct indices
         [ok |-> FALSE, err |-> "ValueError", self |-> entered, rng |-> simulations.rng,
          stages |-> <<"simulate_gbm", "statistics">>]
    ELSE [ok |-> TRUE, err |-> "",
          self |-> [entered EXCEPT !.time_horizon = self.time_horizon],
          rng |-> (simulations.rng + 1) % RngPeriod,
          stages |-> <<"simulate_gbm", "statistics", "sample_paths">>,
          simulations |-> simulations.price_paths,
          value |->
            [current_nav |-> current_nav,
             prediction_days |-> days,
             final_values |->
               Force([i \in 1..self.n_simulations |-> simulations.price_paths[i][days]]),
             risk_metrics |->
               RiskMetrics(TerminalCents(simulations.price_paths, current_nav, mu, sigma,
                                         days),
                           100 * current_nav),
             percentiles |->
               PercentilesOf(TerminalCents(simulations.price_paths, current_nav, mu, sigma,
                                           days)),
             sample_paths |-> SamplePaths(simulations.price_paths, sample),
             n_simulations |-> self.n_simulations]]

\* MonteCarloSimulator.predict_nav.  empty is what NumPy's reductions do on
\* an empty array of terminal values ("nan": a warning and NaN; "raises").
\* The result holds the simulator as the call leaves it and the stages the
\* call went through.
predict_nav(self, pos, current_nav, annual_return, volatility, days, empty, sample) ==
    PredictFrom(self, [self EXCEPT !.time_horizon = days],
                simulate_gbm([self EXCEPT !.time_horizon = days], pos, current_nav,
                             annual_return, volatility),
                current_nav, annual_return, volatility, days, empty, sample)

\* monte_carlo_forecast(nav_series, n_sim, horizon, random_state): its own
\* generator rs = RandomState(random_state), one draw of `horizon` shocks
\* per path
monte_carlo_forecast(nav_len, n_sim, horizon, random_state) ==
    IF nav_len = 0 THEN [ok |-> FALSE, err |-> "IndexError"]
    ELSE IF n_sim < 0 \/ horizon < 0 THEN [ok |-> FALSE, err |-> "ValueError"]
    ELSE [ok |-> TRUE, err |-> "",
          sims |-> Force([i \in 1..n_sim |->
                            PricePath(random_state, (i - 1) * horizon, horizon, 1)])]

(***************************************************************************)
(* State: the last call that finished (op), its inputs (inp), the locals   *)
(* it computed (trace) and what its caller received (response); the        *)
(* process-wide MonteCarloSimulator and NumPy's global generator.  The     *)
(* optimizers keep nothing between calls.  For runs of several calls:      *)
(* the simulation calls that finished so far (history) and the requests    *)
(* that are inside predict_nav (threads).                                  *)
(***************************************************************************)
VARIABLES op, inp, trace, response, simulator, rng, history, threads, disk

vars == <<op, inp, trace, response, simulator, rng, history, threads, disk>>

\* the files of the raptor server before anything was generated or trained:
\* the feature files of data/features and the pooled-model artifact of
\* raptor_cache
EmptyDisk == [features |-> {}, pooled |-> FALSE]

\* the request threads of the server
Threads == {1, 2}

\* a thread that is not inside predict_nav
IdleThread == [pc |-> "idle", days |-> 0, original_horizon |-> 0, simulated |-> 0]

\* the lists over ids (a sequence of distinct numbers) of at most n entries,
\* in the order of ids
RECURSIVE SubLists(_, _)
SubLists(ids, n) ==
    IF ids = <<>> \/ n = 0 THEN {<<>>}
    ELSE SubLists(Tail(ids), n)
         \cup {<<Head(ids)>> \o t : t \in SubLists(Tail(ids), n - 1)}

\* the fund lists a caller passes: one fund at least
FundLists == {[i \in 1..Len(l) |-> MfData[l[i]]] : l \in SubLists(<<1, 2, 3>>, MaxFunds)} \ {<<>>}

\* the fund ids a caller passes: 9 is unknown to the data processor
FundIdLists == SubLists(<<1, 2, 9>>, MaxFunds)

RECURSIVE SeqsUpTo(_, _)
SeqsUpTo(S, n) == IF n = 0 THEN {<<>>} ELSE SeqsUpTo(S, n - 1) \cup TuplesOver(S, n)

ViewLists == SeqsUpTo(ViewSet, MaxViews)

Kinds == {"converged", "failed", "raised"}

\* how the frontier solves of one call end: every combination
AllKinds(n) == TuplesOver(Kinds, n)

\* ... or at most one solve that does not converge
FewFailures(n) ==
    {k \in TuplesOver(Kinds, n) : Cardinality({i \in 1..n : k[i] # "converged"}) <= 1}

\* what the max-Sharpe solve of a call may hand back: calls with views are
\* explored on the coarse weight levels
MaxSharpeResults(n, investor_views) ==
    SlsqpSumOne(n, 0, WeightDen, IF investor_views = <<>> THEN WeightLevels ELSE CoarseLevels)

\* the problems the optimizers are called with directly
OptProblems ==
    {[mu |-> Vec(<<40, 51>>, 80), cov |-> Mat(<<<<25, 15>>, <<15, 36>>>>, 100)],
     [mu |-> Vec(<<1, 1>>, 10),   cov |-> Mat(<<<<1, 0>>, <<0, 1>>>>, 100)],
     [mu |-> Vec(<<1, 2, 3>>, 10), cov |-> Mat(<<<<1, 0, 0>>, <<0, 4, 0>>, <<0, 0, 9>>>>, 100)],
     [mu |-> Vec(<<1>>, 10),      cov |-> Mat(<<<<4>>>>, 100)]}

\* the process-wide instances: monte_carlo = MonteCarloSimulator()
Init ==
    /\ op = "none"
    /\ inp = <<>>
    /\ trace = <<>>
    /\ response = [status |-> "none"]
    /\ simulator = [n_simulations |-> MaxSims, time_horizon |-> MaxHorizon]
    /\ rng = 0
    /\ history = <<>>
    /\ threads = [t \in Threads |-> IdleThread]
    /\ disk = EmptyDisk

\* a simulator a caller constructed: MonteCarloSimulator(n_simulations, time_horizon)
InitSim ==
    /\ op = "none"
    /\ inp = <<>>
    /\ trace = <<>>
    /\ response = [status |-> "none"]
    /\ simulator \in {[n_simulations |-> n, time_horizon |-> h] :
                        n \in {0, 2, SampleCount, MaxSims}, h \in 1..MaxHorizon}
    /\ rng \in 0..2
    /\ history = <<>>
    /\ threads = [t \in Threads |-> IdleThread]
    /\ disk = EmptyDisk

\* no call has been made yet: each behaviour is one request
Idle == op = "none"

\* what the caller of an operation receives
Outcome(r) == IF r.ok THEN [status |-> "returned", value |-> r.value]
              ELSE [status |-> "raised", error |-> r.err]

\* a direct call of create_portfolio_optimizer(fund_data, investor_views)
CallCreatePortfolioOptimizer ==
    /\ Idle
    /\ \E fund_data \in FundLists, investor_views \in ViewLists :
         \E ms \in MaxSharpeResults(Len(fund_data), investor_views),
            fr \in FewFailures(DefaultPoints) :
           \E r \in {create_portfolio_optimizer(fund_data, investor_views, [ms |-> ms, fr |-> fr])} :
              /\ op' = "create_portfolio_optimizer"
              /\ inp' = [fund_data |-> fund_data, investor_views |-> investor_views,
                         ms |-> ms, fr |-> fr]
              /\ trace' = r.trace
              /\ response' = Outcome(r)
    /\ UNCHANGED <<simulator, rng, history, threads, disk>>

\* the funds of a list of ids that the data processor knows
KnownFunds(fund_ids) == Cardinality({i \in 1..Len(fund_ids) : fund_ids[i] \in DOMAIN MfData})

\* recommendation_engine.optimize_portfolio(fund_ids, investment_amount, investor_views)
CallEngineOptimizePortfolio ==
    /\ Idle
    /\ \E fund_ids \in FundIdLists, investor_views \in ViewLists, investment_amount \in {1000} :
         \E ms \in MaxSharpeResults(KnownFunds(fund_ids), investor_views),
            fr \in FewFailures(DefaultPoints) :
           \E r \in {EngineOptimizePortfolio(fund_ids, investment_amount, investor_views,
                                            [ms |-> ms, fr |-> fr])} :
              /\ op' = "engine_optimize_portfolio"
              /\ inp' = [fund_ids |-> fund_ids, investor_views |-> investor_views,
                         investment_amount |-> investment_amount, ms |-> ms, fr |-> fr]
              /\ trace' = IF r.called THEN r.trace ELSE [stage |-> "rejected"]
              /\ response' = Outcome(r)
    /\ UNCHANGED <<simulator, rng, history, threads, disk>>

\* POST /api/efficient-frontier with a fund_ids array
CallApiEfficientFrontier ==
    /\ Idle
    /\ \E fund_ids \in FundIdLists :
         \E ms \in MaxSharpeResults(KnownFunds(fund_ids), <<>>),
            fr \in FewFailures(DefaultPoints) :
           \E r \in {ApiEfficientFrontier(fund_ids, [ms |-> ms, fr |-> fr])} :
              /\ op' = "api_efficient_frontier"
              /\ inp' = [fund_ids |-> fund_ids, investor_views |-> <<>>, ms |-> ms, fr |-> fr]
              /\ trace' = IF r.called THEN r.trace ELSE [stage |-> "rejected"]
              /\ response' = Outcome(r)
    /\ UNCHANGED <<simulator, rng, history, threads, disk>>

NavOutcomes == {"ok", "FileNotFoundError"}

TopKs == {-1, 1, 2}

\* recommender.recommend_black_litterman(scheme_codes, amount, top_k)
CallRecommendBlackLitterman ==
    /\ Idle
    /\ \E prior \in RaptorPriors, top_k \in TopKs, nav \in [{"S1", "S2"} -> NavOutcomes] :
         \E r \in {recommend_black_litterman(prior, 1000, top_k, nav)} :
            /\ op' = "recommend_black_litterman"
            /\ inp' = [prior |-> prior, amount |-> 1000, top_k |-> top_k, nav |-> nav]
            /\ trace' = r.trace
            /\ response' = Outcome(r)
    /\ UNCHANGED <<simulator, rng, history, threads, disk>>

\* backtest.backtest_black_litterman(lookback_days, rebalance_freq_days, top_k)
CallBacktestBlackLitterman ==
    /\ Idle
    /\ \E prior \in RaptorPriors, enough \in BOOLEAN, top_k \in TopKs,
          futures \in SeqsUpTo(FutureRows, MaxSteps) :
         \E r \in {backtest_black_litterman(prior, enough, top_k, futures)} :
            /\ op' = "backtest_black_litterman"
            /\ inp' = [prior |-> prior, enough |-> enough, top_k |-> top_k, futures |-> futures]
            /\ trace' = r.trace
            /\ response' = Outcome(r)
    /\ UNCHANGED <<simulator, rng, history, threads, disk>>

NextOrch ==
    \/ CallCreatePortfolioOptimizer
    \/ CallEngineOptimizePortfolio
    \/ CallApiEfficientFrontier
    \/ CallRecommendBlackLitterman
    \/ CallBacktestBlackLitterman

\* the Black-Litterman orchestrators and their entry points
SpecOrch == Init /\ [][NextOrch]_vars

\* BlackLittermanModel.optimize_portfolio(expected_returns, cov_matrix)
CallOptimizePortfolio ==
    /\ Idle
    /\ \E prob \in OptProblems :
         \E res \in SlsqpSumOne(Len(prob.mu.v), 0, WeightDen, WeightLevels) :
           /\ op' = "optimize_portfolio"
           /\ inp' = [expected_returns |-> prob.mu, cov_matrix |-> prob.cov, res |-> res]
           /\ trace' = <<>>
           /\ response' = [status |-> "returned",
                           value |-> optimize_portfolio(prob.mu, prob.cov, res)]
    /\ UNCHANGED <<simulator, rng, history, threads, disk>>

\* bounds = tuple((0.01, 1) for _ in range(n)): 1% of WeightDen
RiskParityLow == WeightDen \div 100

\* RiskParityOptimizer.optimize(expected_returns, cov_matrix)
CallRiskParityOptimize ==
    /\ Idle
    /\ \E prob \in OptProblems :
         \E res \in SlsqpSumOne(Len(prob.mu.v), RiskParityLow, WeightDen, WeightLevels) :
           /\ op' = "risk_parity_optimize"
           /\ inp' = [expected_returns |-> prob.mu, cov_matrix |-> prob.cov, res |-> res]
           /\ trace' = <<>>
           /\ response' = [status |-> "returned",
                           value |-> RiskParityOptimize(prob.mu, prob.cov, res)]
    /\ UNCHANGED <<simulator, rng, history, threads, disk>>

\* BlackLittermanModel.generate_efficient_frontier(expected_returns, cov_matrix, n_points)
CallGenerateEfficientFrontier ==
    /\ Idle
    /\ \E prob \in OptProblems, n_points \in 0..MaxPoints :
         \E kinds \in AllKinds(n_points) :
           \E r \in {generate_efficient_frontier(prob.mu, prob.cov, n_points, kinds)} :
              /\ op' = "generate_efficient_frontier"
              /\ inp' = [expected_returns |-> prob.mu, cov_matrix |-> prob.cov,
                         n_points |-> n_points, kinds |-> kinds]
              /\ trace' = [solves |-> r.solves]
              /\ response' = [status |-> "returned",
                              value |-> [returns |-> r.returns,
                                         volatilities |-> r.volatilities,
                                         weights |-> r.weights]]
    /\ UNCHANGED <<simulator, rng, history, threads, disk>>

NextOpt ==
    \/ CallOptimizePortfolio
    \/ CallRiskParityOptimize
    \/ CallGenerateEfficientFrontier

\* the optimizers called directly
SpecOpt == Init /\ [][NextOpt]_vars

\* simulator.simulate_gbm(S0, mu, sigma)
CallSimulateGbm ==
    /\ Idle
    /\ \E sigma \in {0, 1} :
         \E r \in {simulate_gbm(simulator, rng, 100, 1, sigma)} :
            /\ op' = "simulate_gbm"
            /\ inp' = [n_paths |-> simulator.n_simulations, horizon |-> simulator.time_horizon,
                       sigma |-> sigma]
            /\ trace' = [stages |-> IF r.ok THEN <<"simulate_gbm">> ELSE <<>>]
            /\ response' = IF r.ok THEN [status |-> "returned", value |-> r.price_paths]
                           ELSE [status |-> "raised", error |-> r.err]
            /\ rng' = r.rng
    /\ UNCHANGED <<simulator, history, threads, disk>>

\* simulator.predict_nav(current_nav, annual_return, volatility, days)
CallPredictNav ==
    /\ Idle
    /\ \E days \in 0..MaxHorizon, mu \in {0, 1}, sigma \in {0, 1},
          empty \in {"nan", "raises"}, sample \in SampleChoices(simulator.n_simulations) :
         \E r \in {predict_nav(simulator, rng, 100, mu, sigma, days, empty, sample)} :
            /\ op' = "predict_nav"
            /\ inp' = [n_paths |-> simulator.n_simulations, horizon |-> days,
                       mu |-> mu, sigma |-> sigma, sample |-> sample]
            /\ trace' = IF r.ok THEN [stages |-> r.stages, simulations |-> r.simulations]
                         ELSE [stages |-> r.stages]
            /\ response' = Outcome(r)
            /\ simulator' = r.self
            /\ rng' = r.rng
    /\ UNCHANGED <<history, threads, disk>>

\* monte_carlo.monte_carlo_forecast(nav_series, n_sim, horizon, random_state)
CallMonteCarloForecast ==
    /\ Idle
    /\ \E nav_len \in {0, 3}, n_sim \in 0..2, horizon \in 0..MaxHorizon, random_state \in {0, 42} :
         \E r \in {monte_carlo_forecast(nav_len, n_sim, horizon, random_state)} :
            /\ op' = "monte_carlo_forecast"
            /\ inp' = [n_paths |-> n_sim, horizon |-> horizon, nav_len |-> nav_len,
                       random_state |-> random_state]
            /\ trace' = [stages |-> IF r.ok THEN <<"simulate">> ELSE <<>>]
            /\ response' = IF r.ok THEN [status |-> "returned", value |-> r.sims]
                           ELSE [status |-> "raised", error |-> r.err]
    /\ UNCHANGED <<simulator, rng, history, threads, disk>>

NextSim ==
    \/ CallSimulateGbm
    \/ CallPredictNav
    \/ CallMonteCarloForecast

\* the simulators, on any simulator a caller constructed
SpecSim == InitSim /\ [][NextSim]_vars


(***************************************************************************)
(* Properties                                                              *)
(***************************************************************************)
AntiOps == {"create_portfolio_optimizer", "engine_optimize_portfolio", "api_efficient_frontier"}

\* the last call went into create_portfolio_optimizer
ReachedOrchestrator == op \in AntiOps /\ trace.stage # "rejected"

\* the sum of the reported weights, in hundredths of a percent
AllocationTotal(allocations) ==
    SumSeq([i \in 1..Len(allocations) |-> allocations[i].weight])

\* 100% in hundredths of a percent
FullPercent == 100 * 100

\* C1: whenever create_portfolio_optimizer returns for at least 2 funds and
\* a converged max-Sharpe solve, the weights of the returned allocations sum
\* to 100% (up to the rounding of each reported weight to 0.01%).
C1_AllocationsSumToOne ==
    (/\ op = "create_portfolio_optimizer"
     /\ response.status = "returned"
     /\ Len(inp.fund_data) >= 2
     /\ inp.ms.success)
    => 2 * Abs(AllocationTotal(response.value.allocations) - FullPercent)
          <= Len(response.value.allocations)

\* a weight vector over one denominator is feasible: the weights sum to 1 and
\* none is negative
Feasible(w) == SumSeq(w.v) = w.d /\ \A i \in 1..Len(w.v) : w.v[i] >= 0

\* the same for weights reported as percentages rounded to 0.01
FeasiblePercent(ws) ==
    /\ 2 * Abs(SumSeq(ws) - FullPercent) <= Len(ws)
    /\ \A i \in 1..Len(ws) : ws[i] >= 0

\* the feasibility of whatever weights the last optimizer call returned
ReturnedWeightsFeasible ==
    /\ op = "optimize_portfolio" => Feasible(response.value.optimal_weights)
    /\ op = "risk_parity_optimize" => FeasiblePercent(response.value.weights)
    /\ op = "generate_efficient_frontier" =>
          \A i \in 1..Len(response.value.weights) : Feasible(response.value.weights[i])

\* the last call was an optimizer call whose solve did not converge
ReturnedUnconverged ==
    /\ op \in {"optimize_portfolio", "risk_parity_optimize"}
    /\ ~response.value.optimization_success

\* C2: the weights returned by a converged max-Sharpe or risk-parity solve,
\* and the weights of every returned frontier point, sum to 1 and are
\* non-negative (the risk-parity weights as percentages rounded to 0.01).
C2_ConvergedWeightsFeasible == ~ReturnedUnconverged => ReturnedWeightsFeasible

\* C2 as stated: every weight vector an optimizer operation returns sums
\* to 1 and is non-negative.
C2_AllWeightsFeasible == ReturnedWeightsFeasible

\* a converged max-Sharpe solve over 2 or more assets with a weight on a bound
C2_Witness ==
    /\ op = "optimize_portfolio"
    /\ response.value.optimization_success
    /\ Len(response.value.optimal_weights.v) >= 2
    /\ \E i \in 1..Len(response.value.optimal_weights.v) :
          response.value.optimal_weights.v[i] = 0

\* C3: in the frontier generate_efficient_frontier returns, volatility does
\* not decrease as the target return increases.
C3_FrontierVolatilityNonDecreasing ==
    op = "generate_efficient_frontier" =>
       \A i, j \in 1..Len(response.value.volatilities) :
          i < j => response.value.volatilities[i] <= response.value.volatilities[j]

\* the solves of the last frontier call that converged, in grid order
ConvergedSolves == SelectSeq(trace.solves, LAMBDA p : p.kind = "converged")

\* C4: the frontier lists hold one entry per converged solve, in grid order,
\* each made of that solve's target, objective value and weights; a solve
\* that failed or raised contributes nothing.
C4_FrontierPointIffConverged ==
    op = "generate_efficient_frontier" =>
       /\ Len(response.value.returns) = Len(ConvergedSolves)
       /\ Len(response.value.volatilities) = Len(ConvergedSolves)
       /\ Len(response.value.weights) = Len(ConvergedSolves)
       /\ \A i \in 1..Len(ConvergedSolves) :
             /\ response.value.returns[i] =
                   RoundScaled(ConvergedSolves[i].target[1], ConvergedSolves[i].target[2], 4)
             /\ response.value.volatilities[i] =
                   RoundSqrtScaled(ConvergedSolves[i].fun[1], ConvergedSolves[i].fun[2], 4)
             /\ response.value.weights[i] = Vec(ConvergedSolves[i].x, ConvergedSolves[i].fd)

\* a frontier call with a converged solve, a failed one and one that raised
C4_Witness ==
    /\ op = "generate_efficient_frontier"
    /\ \E i, j, k \in 1..Len(trace.solves) :
          /\ trace.solves[i].kind = "converged"
          /\ trace.solves[j].kind = "failed"
          /\ trace.solves[k].kind = "raised"
    /\ Len(response.value.returns) >= 1

\* create_portfolio_optimizer was entered without views
OrchestratorWithoutViews == ReachedOrchestrator /\ inp.investor_views = <<>>

\* the posterior is the prior, and the optimizer and the frontier ran on it
PosteriorIsPrior ==
    /\ trace.stage = "done"
    /\ trace.posterior_returns = trace.pi
    /\ trace.posterior_cov = trace.cov_matrix
    /\ trace.optimizer_input = <<trace.pi, trace.cov_matrix>>
    /\ trace.frontier_input = <<trace.pi, trace.cov_matrix>>

\* recommend_black_litterman got as far as its Black-Litterman stage
RecommenderWithSchemes ==
    op = "recommend_black_litterman" /\ Len(inp.prior.codes) > 0

\* the recommender's posterior is its prior, and the allocation ran on it
RecommenderPosteriorIsPrior ==
    /\ "posterior" \in DOMAIN trace
    /\ VecEq(trace.posterior, trace.pi)
    /\ trace.stage = "done" =>
          /\ VecEq(trace.markowitz_input[1], trace.pi)
          /\ trace.markowitz_input[2] = trace.cov

\* the recommender's Black-Litterman stage raised LinAlgError
RecommenderStageRaised ==
    /\ response = [status |-> "raised", error |-> "LinAlgError"]
    /\ "posterior" \notin DOMAIN trace

\* C5: create_portfolio_optimizer without views takes (pi, cov_matrix) as
\* the posterior and runs the optimizer and the frontier on exactly that;
\* recommend_black_litterman, which always applies the view formula with
\* P = I and Q = pi, gets pi back when tau * cov is invertible and raises
\* LinAlgError when it is singular.
C5_NoViewsPosteriorIsPrior ==
    /\ OrchestratorWithoutViews => PosteriorIsPrior
    /\ RecommenderWithSchemes =>
          IF IsSingular(MatScale(RaptorTau[1], RaptorTau[2], inp.prior.cov))
          THEN RecommenderStageRaised
          ELSE RecommenderPosteriorIsPrior

\* C5 as stated: without views the Black-Litterman stage always returns the
\* prior, in both orchestrators.
C5_NoViewsAlwaysPrior ==
    /\ OrchestratorWithoutViews => PosteriorIsPrior
    /\ RecommenderWithSchemes => RecommenderPosteriorIsPrior

\* a call without views over two funds that ran to its end
C5_Witness ==
    /\ op = "create_portfolio_optimizer"
    /\ inp.investor_views = <<>>
    /\ Len(inp.fund_data) = 2
    /\ trace.stage = "done"
    /\ response.status = "returned"

\* the matrices incorporate_views inverts for the locals of the last call
TauSigmaOf(t) == MatScale(tau[1], tau[2], t.cov_matrix)

OmegaOf(t) == DiagOfDiag(MatMul(MatMul(t.P, TauSigmaOf(t)), Transpose(t.P)))

PrecisionOf(t) ==
    MatAdd(InvOf(TauSigmaOf(t)),
           MatMul(MatMul(Transpose(t.P), InvOf(OmegaOf(t))), t.P))

\* one of the matrices incorporate_views inverts is singular
SingularInViews(t) ==
    \/ IsSingular(TauSigmaOf(t))
    \/ IsSingular(OmegaOf(t))
    \/ IsSingular(PrecisionOf(t))

\* create_portfolio_optimizer built P and Q and called incorporate_views
ViewsIncorporated == ReachedOrchestrator /\ "P" \in DOMAIN trace

\* C6: when a matrix inverted by the view-incorporation step is singular,
\* the step raises the singular-matrix error (LinAlgError) and its caller
\* gets no posterior: in create_portfolio_optimizer for tau * cov_matrix,
\* omega and the posterior precision, in recommend_black_litterman for
\* tau * cov.
C6_SingularInversionRaises ==
    /\ (ViewsIncorporated /\ SingularInViews(trace)) =>
          /\ response = [status |-> "raised", error |-> "LinAlgError"]
          /\ trace.stage = "incorporate_views"
          /\ "posterior_returns" \notin DOMAIN trace
    /\ (/\ RecommenderWithSchemes
        /\ IsSingular(MatScale(RaptorTau[1], RaptorTau[2], inp.prior.cov))) =>
          RecommenderStageRaised

\* views over funds whose tau * cov_matrix is invertible, with a singular
\* omega: the call raised
C6_Witness ==
    /\ ViewsIncorporated
    /\ ~IsSingular(TauSigmaOf(trace))
    /\ IsSingular(OmegaOf(trace))
    /\ response = [status |-> "raised", error |-> "LinAlgError"]

\* the last call returned an error body instead of a portfolio
RejectedByEntryPoint ==
    /\ response.status = "returned"
    /\ "error" \in DOMAIN response.value
    /\ "allocations" \notin DOMAIN response.value

\* C7: portfolio optimization over fewer than 2 instruments is rejected and
\* produces no allocation and no frontier, in create_portfolio_optimizer
\* and in the entry points that reach it.
C7_FewerThanTwoRejected ==
    /\ (op = "create_portfolio_optimizer" /\ Len(inp.fund_data) < 2) =>
          response.status = "raised"
    /\ (/\ op \in {"engine_optimize_portfolio", "api_efficient_frontier"}
        /\ KnownFunds(inp.fund_ids) < 2) =>
          RejectedByEntryPoint /\ trace.stage = "rejected"

\* C8: when the max-Sharpe solve of create_portfolio_optimizer did not
\* converge, the call still returns, and what it returns carries the
\* optimization_success flag of the solve.
C8_OrchestratorShowsSuccessFlag ==
    (/\ op = "create_portfolio_optimizer"
     /\ trace.stage = "done"
     /\ ~trace.optimization_result.optimization_success) =>
       /\ response.status = "returned"
       /\ \/ "optimization_success" \in DOMAIN response.value
          \/ "optimization_success" \in DOMAIN response.value.portfolio_metrics

\* an exception was raised while solving a frontier grid point of the last call
FrontierSolveRaised ==
    /\ ReachedOrchestrator
    /\ "solves" \in DOMAIN trace
    /\ \E i \in 1..Len(trace.solves) : trace.solves[i].kind = "raised"

\* an exception was raised inside the details or the rebalance loop of the
\* last raptor call
RaptorStepRaised ==
    /\ op \in {"recommend_black_litterman", "backtest_black_litterman"}
    /\ "except_taken" \in DOMAIN trace
    /\ trace.except_taken # <<>>

\* C9: an exception raised while solving a frontier grid point, while
\* computing the details of a recommended scheme or inside a rebalance
\* step reaches the caller.
C9_SubcomputationErrorsPropagate ==
    (FrontierSolveRaised \/ RaptorStepRaised) => response.status = "raised"

SimOps == {"simulate_gbm", "predict_nav", "monte_carlo_forecast"}

\* C10: a simulation asked for zero paths raises before any path or
\* statistic is computed, and returns nothing.
C10_ZeroPathsRejected ==
    (op \in SimOps /\ inp.n_paths = 0) =>
       response.status = "raised" /\ trace.stages = <<>>

\* the last point of a path
Terminal(path) == path[Len(path)]

\* the paths the last simulator call produced: the returned array of
\* simulate_gbm, the terminal values of predict_nav as paths of one point
ReturnedPaths ==
    IF op = "simulate_gbm" THEN response.value
    ELSE [i \in 1..Len(response.value.final_values) |-> <<response.value.final_values[i]>>]

\* a call of the process-wide simulator with sigma = 0, one path and one step
\* at least
ZeroSigmaCall ==
    /\ op \in {"simulate_gbm", "predict_nav"}
    /\ inp.sigma = 0
    /\ inp.n_paths > 0
    /\ inp.horizon > 0

\* C11: a simulation with sigma = 0, at least one path and at least one step
\* raises nothing in simulate_gbm, and every path it produces ends at the
\* pure drift value S0 * exp(mu * dt * horizon): `horizon` drift steps and
\* no shock at all, whatever the generator drew.
C11_ZeroSigmaIsPureDrift ==
    ZeroSigmaCall =>
       /\ op = "simulate_gbm" => response.status = "returned"
       /\ response.status = "returned" =>
             \A i \in 1..Len(ReturnedPaths) :
                Terminal(ReturnedPaths[i]) = [t |-> inp.horizon, z |-> 0]

\* simulate_gbm with sigma = 0 returned several paths of several steps (no
\* two consecutive draws of the generator are both zero)
C11_Witness ==
    /\ op = "simulate_gbm"
    /\ ZeroSigmaCall
    /\ response.status = "returned"
    /\ Len(response.value) >= 2
    /\ inp.horizon >= 2

(***************************************************************************)
(* Runs of several simulation calls in one process: the calls share        *)
(* NumPy's global generator, which _generate_synthetic_historical          *)
(* (Anti/api/data_processor.py) reseeds.                                   *)
(***************************************************************************)
\* the calls of one run
MaxCalls == 3

\* np.random.seed(42) and n_days = 252
HistorySeed == 42

SyntheticDays == 252

\* the position np.random.seed(seed) puts the global generator at
SeedPos(seed) == seed % RngPeriod

\* the record of a finished call
Finished(name, args, paths) == [op |-> name, args |-> args, paths |-> paths]

\* monte_carlo.simulate_gbm(S0, mu, sigma) on the process-wide simulator
SeqSimulateGbm ==
    /\ Len(history) < MaxCalls
    /\ \E sigma \in {0, 1} :
         \E r \in {simulate_gbm(simulator, rng, 100, 1, sigma)} :
            /\ r.ok
            /\ history' = Append(history,
                                 Finished("simulate_gbm",
                                          [n_simulations |-> simulator.n_simulations,
                                           time_horizon |-> simulator.time_horizon,
                                           S0 |-> 100, mu |-> 1, sigma |-> sigma],
                                          r.price_paths))
            /\ rng' = r.rng
    /\ UNCHANGED <<op, inp, trace, response, simulator, threads, disk>>

\* monte_carlo.predict_nav(current_nav, annual_return, volatility, days): its
\* simulation and its draw of the sample indices
SeqPredictNav ==
    /\ Len(history) < MaxCalls
    /\ \E sample \in SampleChoices(simulator.n_simulations) :
         \E r \in {predict_nav(simulator, rng, 100, 1, 1, 1, "nan", sample)} :
            /\ r.ok
            /\ history' = Append(history,
                                 Finished("predict_nav",
                                          [n_simulations |-> simulator.n_simulations,
                                           S0 |-> 100, mu |-> 1, sigma |-> 1, days |-> 1],
                                          r.value.final_values))
            /\ simulator' = r.self
            /\ rng' = r.rng
    /\ UNCHANGED <<op, inp, trace, response, threads, disk>>

\* monte_carlo_forecast(nav_series, n_sim, horizon, random_state): it draws
\* from its own RandomState(random_state)
SeqMonteCarloForecast ==
    /\ Len(history) < MaxCalls
    /\ \E random_state \in {0, HistorySeed} :
         \E r \in {monte_carlo_forecast(3, 2, MaxHorizon, random_state)} :
            /\ r.ok
            /\ history' = Append(history,
                                 Finished("monte_carlo_forecast",
                                          [nav_len |-> 3, n_sim |-> 2, horizon |-> MaxHorizon,
                                           random_state |-> random_state],
                                          r.sims))
    /\ UNCHANGED <<op, inp, trace, response, simulator, rng, threads, disk>>

\* _generate_synthetic_historical: np.random.seed(42), then n_days draws
\* from the global generator
SeqSyntheticHistorical ==
    /\ Len(history) < MaxCalls
    /\ history' = Append(history,
                         Finished("_generate_synthetic_historical",
                                  [seed |-> HistorySeed, n_days |-> SyntheticDays], <<>>))
    /\ rng' = (SeedPos(HistorySeed) + SyntheticDays) % RngPeriod
    /\ UNCHANGED <<op, inp, trace, response, simulator, threads, disk>>

NextSeq ==
    \/ SeqSimulateGbm
    \/ SeqPredictNav
    \/ SeqMonteCarloForecast
    \/ SeqSyntheticHistorical

\* several simulation calls, one after the other, in one process
SpecSeq == Init /\ [][NextSeq]_vars

\* C12: two finished simulation calls of the same operation with identical
\* inputs (the seed included, where the operation takes one) produced
\* identical paths, whatever ran before or between them.
C12_SameInputsSamePaths ==
    \A i, j \in 1..Len(history) :
       (history[i].op = history[j].op /\ history[i].args = history[j].args)
          => history[i].paths = history[j].paths

\* predict_nav returned a result
PredictReturned == op = "predict_nav" /\ response.status = "returned"

\* C13: in every result of predict_nav, VaR95 is not negative when the
\* probability of loss is positive, and is zero when the probability of
\* loss is zero.
C13_VarSignFollowsLossProbability ==
    PredictReturned =>
       /\ response.value.risk_metrics.probability_of_loss > 0 =>
             response.value.risk_metrics.var_95 >= 0
       /\ response.value.risk_metrics.probability_of_loss = 0 =>
             response.value.risk_metrics.var_95 = 0

\* the terminal values of the returned result, in hundredths, recomputed
\* from the returned final_values
ReturnedTerminals ==
    Force([i \in 1..Len(response.value.final_values) |->
             PriceCents(response.value.current_nav, inp.mu, inp.sigma,
                        response.value.final_values[i])])

\* the terminal values at or below the smallest one: the 5th percentile is
\* never below the minimum
AtOrBelowP5(values) ==
    SelectSeq(values, LAMBDA v : 100 * v <= PercentileOfSorted(SortAsc(values), 5))

\* C14: in every result of predict_nav, CVaR95 is a number, it is
\* current_nav minus the mean of the terminal values at or below the 5th
\* percentile, and when all terminal values are equal it equals VaR95.
C14_CvarAlwaysDefined ==
    PredictReturned =>
       /\ ~response.value.risk_metrics.cvar_95.nan
       /\ AtOrBelowP5(ReturnedTerminals) # <<>>
       /\ response.value.risk_metrics.cvar_95.value =
             RoundScaled(100 * response.value.current_nav
                            * Len(AtOrBelowP5(ReturnedTerminals))
                            - SumSeq(AtOrBelowP5(ReturnedTerminals)),
                         Len(AtOrBelowP5(ReturnedTerminals)), 0)
       /\ (\A i \in 1..Len(ReturnedTerminals) :
              ReturnedTerminals[i] = ReturnedTerminals[1]) =>
             response.value.risk_metrics.cvar_95.value = response.value.risk_metrics.var_95

\* a result whose terminal values are all equal
C14_Witness ==
    /\ PredictReturned
    /\ \A i \in 1..Len(ReturnedTerminals) : ReturnedTerminals[i] = ReturnedTerminals[1]
    /\ response.value.risk_metrics.cvar_95.value = response.value.risk_metrics.var_95


(***************************************************************************)
(* BlackScholesModel.  Prices are whole currency units, rates and          *)
(* volatilities hundredths, the horizon a perfect square number of years.  *)
(* A float that passes through np.log, np.exp, norm.cdf or norm.pdf is     *)
(* kept by its class: "nan", "+inf", "-inf", "zero", "pos", "neg" (finite  *)
(* and not zero) or "num" (finite, sign not determined).                   *)
(***************************************************************************)
SignClass(s) == IF s > 0 THEN "pos" ELSE IF s < 0 THEN "neg" ELSE "zero"

ClassSign(c) == IF c \in {"pos", "+inf"} THEN 1 ELSE IF c \in {"neg", "-inf"} THEN -1 ELSE 0

InfClass(s) == IF s > 0 THEN "+inf" ELSE "-inf"

NpNeg(c) ==
    CASE c = "pos" -> "neg" [] c = "neg" -> "pos"
      [] c = "+inf" -> "-inf" [] c = "-inf" -> "+inf" [] OTHER -> c

\* a / b on numpy floats: a division by zero gives an infinity or NaN and a
\* RuntimeWarning, never an exception
NpDiv(a, b) ==
    IF a = "nan" \/ b = "nan" THEN "nan"
    ELSE IF b = "zero"
         THEN (IF a = "zero" THEN "nan"
               ELSE IF a = "num" THEN "nonfinite"
               ELSE InfClass(ClassSign(a)))
    ELSE IF b \in {"+inf", "-inf"}
         THEN (IF a \in {"+inf", "-inf"} THEN "nan" ELSE "zero")
    ELSE IF a = "zero" THEN "zero"
    ELSE IF a = "num" \/ b = "num" THEN "num"
    ELSE IF a \in {"+inf", "-inf"} THEN InfClass(ClassSign(a) * ClassSign(b))
    ELSE SignClass(ClassSign(a) * ClassSign(b))

NpMul(a, b) ==
    IF a = "nan" \/ b = "nan" THEN "nan"
    ELSE IF a \in {"+inf", "-inf"} \/ b \in {"+inf", "-inf"}
         THEN (IF a = "zero" \/ b = "zero" THEN "nan"
               ELSE IF a = "num" \/ b = "num" THEN "nonfinite"
               ELSE InfClass(ClassSign(a) * ClassSign(b)))
    ELSE IF a = "zero" \/ b = "zero" THEN "zero"
    ELSE IF a = "num" \/ b = "num" THEN "num"
    ELSE SignClass(ClassSign(a) * ClassSign(b))

NpAdd(a, b) ==
    IF a = "nan" \/ b = "nan" THEN "nan"
    ELSE IF a \in {"+inf", "-inf"}
         THEN (IF b \in {"+inf", "-inf"} /\ b # a THEN "nan" ELSE a)
    ELSE IF b \in {"+inf", "-inf"} THEN b
    ELSE IF a = "zero" THEN b
    ELSE IF b = "zero" THEN a
    ELSE IF a = b THEN a
    ELSE "num"

NpSub(a, b) == NpAdd(a, NpNeg(b))

\* np.log of a quotient S / K of two numbers, K # 0
NpLogOfRatio(S, K) ==
    IF S * K < 0 THEN "nan"
    ELSE IF S = 0 THEN "-inf"
    ELSE SignClass(Abs(S) - Abs(K))

\* scipy.stats.norm.cdf and norm.pdf
NormCdf(c) == IF c = "nan" THEN "nan" ELSE IF c = "-inf" THEN "zero" ELSE "pos"

NormPdf(c) == IF c = "nan" THEN "nan" ELSE IF c \in {"+inf", "-inf"} THEN "zero" ELSE "pos"

\* sigma * np.sqrt(T)
SigmaSqrtT(sigma, T) == SignClass(sigma * ISqrt(T))

calculate_d1_d2(S, K, r, sigma, T) ==
    IF K = 0 THEN Raised("ZeroDivisionError")
    ELSE Let(NpDiv(NpAdd(NpLogOfRatio(S, K), SignClass((200 * r + sigma * sigma) * T)),
                   SigmaSqrtT(sigma, T)), LAMBDA d1 :
            [ok |-> TRUE, err |-> "", d1 |-> d1, d2 |-> NpSub(d1, SigmaSqrtT(sigma, T))])

\* K * np.exp(-r * T) * norm.cdf(-d2) - S * norm.cdf(-d1)
PutFrom(d, S, K) ==
    IF ~d.ok THEN d
    ELSE [ok |-> TRUE, err |-> "",
          put |-> NpSub(NpMul(SignClass(K), NormCdf(NpNeg(d.d2))),
                        NpMul(SignClass(S), NormCdf(NpNeg(d.d1))))]

put_price(S, K, r, sigma, T) == PutFrom(calculate_d1_d2(S, K, r, sigma, T), S, K)

GreeksFrom(d, S, K, r, sigma, T) ==
    IF ~d.ok THEN d
    ELSE [ok |-> TRUE, err |-> "",
          value |->
            [delta |-> [call |-> NormCdf(d.d1), put |-> NpSub(NormCdf(d.d1), "pos")],
             gamma |-> NpDiv(NormPdf(d.d1), NpMul(SignClass(S), SigmaSqrtT(sigma, T))),
             theta |->
               [call |-> NpSub(NpNeg(NpDiv(NpMul(NpMul(SignClass(S), NormPdf(d.d1)),
                                                 SignClass(sigma)),
                                           SignClass(ISqrt(T)))),
                               NpMul(SignClass(r * K), NormCdf(d.d2))),
                put  |-> NpAdd(NpNeg(NpDiv(NpMul(NpMul(SignClass(S), NormPdf(d.d1)),
                                                 SignClass(sigma)),
                                           SignClass(ISqrt(T)))),
                               NpMul(SignClass(r * K), NormCdf(NpNeg(d.d2))))],
             vega |-> NpMul(NpMul(SignClass(S), SignClass(ISqrt(T))), NormPdf(d.d1)),
             rho |-> [call |-> NpMul(SignClass(K * T), NormCdf(d.d2)),
                      put  |-> NpNeg(NpMul(SignClass(K * T), NormCdf(NpNeg(d.d2))))]]]

calculate_greeks(S, K, r, sigma, T) ==
    GreeksFrom(calculate_d1_d2(S, K, r, sigma, T), S, K, r, sigma, T)

\* round(x * 100, 2) of x = num / den, den # 0, in hundredths of a percent
PercentRounded(num, den) == RoundScaled(100 * Sign(den) * num, Abs(den), 2)

\* risk_premium = expected_return - risk_free_rate, as a numerator over
\* 100 * current_nav: the gross numerator leaves the rate out
ExcessNumGross(current_nav, expected_nav, risk_free_rate) ==
    100 * (expected_nav - current_nav)

ExcessNum(current_nav, expected_nav, risk_free_rate) ==
    100 * (expected_nav - current_nav) - risk_free_rate * current_nav

PremiumFrom(put, current_nav, expected_nav, volatility, risk_free_rate, time_horizon) ==
    IF ~put.ok THEN put
    ELSE [ok |-> TRUE, err |-> "",
          value |->
            [expected_return |-> PercentRounded(expected_nav - current_nav, current_nav),
             risk_free_rate  |-> 100 * risk_free_rate,
             risk_premium |->
               RoundScaled(Sign(current_nav)
                              * ExcessNum(current_nav, expected_nav, risk_free_rate),
                           Abs(current_nav), 2),
             sharpe_ratio |->
               IF volatility > 0
               THEN RoundScaled(Sign(current_nav)
                                   * ExcessNum(current_nav, expected_nav, risk_free_rate),
                                Abs(current_nav) * volatility, 3)
               ELSE 0,
             prob_beat_risk_free |->
               NormCdf(NpDiv(SignClass(Sign(current_nav)
                                * ExcessNum(current_nav, expected_nav, risk_free_rate)),
                             SigmaSqrtT(volatility, time_horizon))),
             protection_cost |-> put.put,
             protection_cost_pct |-> NpDiv(put.put, SignClass(current_nav))]]

\* expected_nav / current_nav on Python numbers raises ZeroDivisionError
calculate_risk_premium(current_nav, expected_nav, volatility, risk_free_rate, time_horizon) ==
    IF current_nav = 0 THEN Raised("ZeroDivisionError")
    ELSE PremiumFrom(put_price(current_nav, current_nav, risk_free_rate, volatility,
                               time_horizon),
                     current_nav, expected_nav, volatility, risk_free_rate, time_horizon)

\* a call of black_scholes.calculate_risk_premium
CallCalculateRiskPremium ==
    /\ Idle
    /\ \E current_nav \in {-100, 0, 100, 200}, expected_nav \in {-5, 0, 100, 110, 220},
          volatility \in {0, 15, 30}, risk_free_rate \in {0, 6}, time_horizon \in {0, 1, 4} :
         /\ op' = "calculate_risk_premium"
         /\ inp' = [current_nav |-> current_nav, expected_nav |-> expected_nav,
                    volatility |-> volatility, risk_free_rate |-> risk_free_rate,
                    time_horizon |-> time_horizon]
         /\ response' = Outcome(calculate_risk_premium(current_nav, expected_nav, volatility,
                                                       risk_free_rate, time_horizon))
    /\ trace' = <<>>
    /\ UNCHANGED <<simulator, rng, history, threads, disk>>

\* a call of black_scholes.calculate_greeks
CallCalculateGreeks ==
    /\ Idle
    /\ \E S \in {100, 110}, K \in {0, 100}, r \in {0, 6}, sigma \in {0, 15},
          T \in {0, 1, 4} :
         /\ op' = "calculate_greeks"
         /\ inp' = [S |-> S, K |-> K, r |-> r, volatility |-> sigma, time_horizon |-> T]
         /\ response' = Outcome(calculate_greeks(S, K, r, sigma, T))
    /\ trace' = <<>>
    /\ UNCHANGED <<simulator, rng, history, threads, disk>>

NextBs ==
    \/ CallCalculateRiskPremium
    \/ CallCalculateGreeks

\* the pricing functions, each called once
SpecBs == Init /\ [][NextBs]_vars

\* the classes of a float that is zero, infinite or NaN
Degenerate == {"nan", "+inf", "-inf", "zero", "nonfinite"}

PricingOps == {"calculate_risk_premium", "calculate_greeks"}

\* C15: calculate_risk_premium and calculate_greeks called with volatility 0
\* or time 0 fail with InvalidParameter and never return a result.
C15_ZeroVolatilityOrTimeRejected ==
    (op \in PricingOps /\ (inp.volatility = 0 \/ inp.time_horizon = 0)) =>
       (response.status = "raised" /\ response.error = "InvalidParameter")

\* C16: calculate_risk_premium called with current <= 0 or expected <= 0
\* fails with InvalidParameter and returns no result.
C16_NonPositiveNavRejected ==
    (op = "calculate_risk_premium" /\ (inp.current_nav <= 0 \/ inp.expected_nav <= 0)) =>
       (response.status = "raised" /\ response.error = "InvalidParameter")

\* the inputs the pricing model is defined for
ValidPremiumCall ==
    /\ op = "calculate_risk_premium"
    /\ inp.current_nav > 0 /\ inp.expected_nav > 0
    /\ inp.volatility > 0 /\ inp.time_horizon > 0

\* C17: for valid inputs calculate_risk_premium returns expected_return =
\* (expected / current - 1) and risk_premium = expected_return -
\* risk_free_rate, both in percent rounded to 2 decimals; current 100,
\* expected 110, volatility 0.15, rate 0.06, horizon 1 gives 10.0 and 4.0.
C17_PremiumIsReturnMinusRate ==
    ValidPremiumCall =>
       /\ response.status = "returned"
       /\ 2 * Abs(response.value.expected_return * inp.current_nav
                    - 10000 * (inp.expected_nav - inp.current_nav)) <= inp.current_nav
       /\ 2 * Abs(response.value.risk_premium * inp.current_nav
                    - 10000 * (inp.expected_nav - inp.current_nav)
                    + 100 * inp.risk_free_rate * inp.current_nav) <= inp.current_nav
       /\ (inp = [current_nav |-> 100, expected_nav |-> 110, volatility |-> 15,
                  risk_free_rate |-> 6, time_horizon |-> 1]) =>
             (response.value.expected_return = 1000 /\ response.value.risk_premium = 400)

\* the worked example has been priced
C17_Witness ==
    /\ ValidPremiumCall
    /\ inp.current_nav = 100 /\ inp.expected_nav = 110 /\ inp.risk_free_rate = 6
    /\ response.status = "returned"
    /\ response.value.expected_return = 1000
    /\ response.value.risk_premium = 400


\* C18: every view with a non-empty list of instrument indices becomes one
\* row of P that sums to 1, repeated indices included, and Q[i] is the
\* return the view claims.
C18_ViewRowsSumToOne ==
    (ViewsIncorporated /\ "investor_views" \in DOMAIN inp) =>
       /\ NRows(trace.P) = Len(inp.investor_views)
       /\ \A i \in 1..Len(inp.investor_views) :
             /\ inp.investor_views[i].funds # <<>> =>
                   SumSeq(trace.P.m[i]) = trace.P.d
             /\ trace.Q.v[i] * inp.investor_views[i].return[2]
                   = inp.investor_views[i].return[1] * trace.Q.d


(***************************************************************************)
(* The entry points that run the process-wide simulator: GET               *)
(* /api/predict/<fund_id>, GET /api/stress-test/<fund_id> and the          *)
(* recommendation engine's fund insight.                                   *)
(***************************************************************************)
\* days per year: the literal of stress_test and of the fund insight
TradingYear == MaxHorizon

\* n_simulations x time_horizon of the simulator as it is constructed
SimulationCeiling == MaxSims * MaxHorizon

\* a percentage as the simulator's whole log units per step
StepUnits(pct) == (pct + 50) \div 100

\* the multipliers of the scenarios of /api/stress-test, in tenths
StressScenarios ==
    <<[name |-> "baseline",         return_multiplier |-> 10, vol_multiplier |-> 10],
      [name |-> "mild_recession",   return_multiplier |-> 5,  vol_multiplier |-> 13],
      [name |-> "severe_recession", return_multiplier |-> -5, vol_multiplier |-> 20],
      [name |-> "bull_market",      return_multiplier |-> 15, vol_multiplier |-> 8],
      [name |-> "high_volatility",  return_multiplier |-> 10, vol_multiplier |-> 20]>>

\* the prediction of a fund row
PredictForFund(self, pos, fund, investment, days, sample) ==
    predict_nav(self, pos, investment, StepUnits(DictGet(fund, "returns_1yr", 10)),
                StepUnits(DictGet(fund, "sd", 15)), days, "nan", sample)

NotFound(self, pos) ==
    [ok |-> TRUE, err |-> "", called |-> FALSE, self |-> self, rng |-> pos, stages |-> <<>>,
     value |-> [http |-> 404, success |-> FALSE, error |-> "Fund not found"]]

PredictFundResult(fund_id, fund, r) ==
    IF ~r.ok THEN r @@ [called |-> TRUE]
    ELSE [ok |-> TRUE, err |-> "", called |-> TRUE, self |-> r.self, rng |-> r.rng,
          stages |-> r.stages,
          value |-> [http |-> 200, success |-> TRUE,
                     data |-> r.value @@
                              [fund |-> [fund_id |-> fund_id,
                                         scheme_name |-> DictGet(fund, "scheme_name", "")]]]]

\* GET /api/predict/<fund_id>?days=
predict_fund(self, pos, fund_id, days, sample) ==
    IF get_fund_by_id(fund_id) = None THEN NotFound(self, pos)
    ELSE PredictFundResult(fund_id, get_fund_by_id(fund_id),
                           PredictForFund(self, pos, get_fund_by_id(fund_id), 100, days,
                                          sample))

\* MonteCarloSimulator.stress_test: one predict_nav of a year per scenario
RECURSIVE StressFrom(_, _, _, _, _, _, _, _)
StressFrom(self, pos, current_nav, annual_return, volatility, scenarios, sample, results) ==
    IF scenarios = <<>>
    THEN [ok |-> TRUE, err |-> "", called |-> TRUE, self |-> self, rng |-> pos,
          stages |-> <<"simulate_gbm", "statistics", "sample_paths">>, value |-> results]
    ELSE Let(predict_nav(self, pos, current_nav,
                         StepUnits((annual_return * Head(scenarios).return_multiplier) \div 10),
                         StepUnits((volatility * Head(scenarios).vol_multiplier) \div 10),
                         TradingYear, "nan", sample),
             LAMBDA r :
               IF ~r.ok THEN r @@ [called |-> TRUE]
               ELSE StressFrom(r.self, r.rng, current_nav, annual_return, volatility,
                               Tail(scenarios), sample,
                               Append(results,
                                      [name |-> Head(scenarios).name,
                                       var_95 |-> r.value.risk_metrics.var_95,
                                       prob_loss |->
                                         r.value.risk_metrics.probability_of_loss])))

stress_test(self, pos, current_nav, annual_return, volatility, scenarios, sample) ==
    StressFrom(self, pos, current_nav, annual_return, volatility, scenarios, sample, <<>>)

StressTestResult(fund_id, fund, r) ==
    IF ~r.ok THEN r
    ELSE [r EXCEPT !.value = [http |-> 200, success |-> TRUE,
                              fund |-> [fund_id |-> fund_id,
                                        scheme_name |-> DictGet(fund, "scheme_name", "")],
                              stress_test_results |-> r.value]]

\* GET /api/stress-test/<fund_id>
api_stress_test(self, pos, fund_id, sample) ==
    IF get_fund_by_id(fund_id) = None THEN NotFound(self, pos)
    ELSE StressTestResult(fund_id, get_fund_by_id(fund_id),
                          stress_test(self, pos, 100,
                                      DictGet(get_fund_by_id(fund_id), "returns_1yr", 10),
                                      DictGet(get_fund_by_id(fund_id), "sd", 15),
                                      StressScenarios, sample))

InsightFrom(fund, r, risk_premium) ==
    IF ~r.ok THEN r @@ [called |-> TRUE]
    ELSE IF ~risk_premium.ok
    THEN [ok |-> FALSE, err |-> risk_premium.err, called |-> TRUE, self |-> r.self,
          rng |-> r.rng, stages |-> r.stages]
    ELSE [ok |-> TRUE, err |-> "", called |-> TRUE, self |-> r.self, rng |-> r.rng,
          stages |-> r.stages,
          value |-> [fund_id |-> DictGet(fund, "fund_id", None),
                     scheme_name |-> DictGet(fund, "scheme_name", ""),
                     prediction |->
                       [probability_of_loss |-> r.value.risk_metrics.probability_of_loss,
                        var_95 |-> r.value.risk_metrics.var_95],
                     risk_analysis |-> risk_premium.value]]

\* RecommendationEngine._generate_fund_insight(fund, investment_amount, horizon)
generate_fund_insight(self, pos, fund, investment_amount, horizon, sample) ==
    InsightFrom(fund,
                PredictForFund(self, pos, fund, investment_amount, horizon * TradingYear,
                               sample),
                calculate_risk_premium(100, 100 + DictGet(fund, "returns_1yr", 10),
                                       DictGet(fund, "sd", 15), 6, 1))

\* the process as a request finds it: the simulator as constructed, the
\* global generator anywhere
InitApi ==
    /\ op = "none"
    /\ inp = <<>>
    /\ trace = <<>>
    /\ response = [status |-> "none"]
    /\ simulator = [n_simulations |-> MaxSims, time_horizon |-> MaxHorizon]
    /\ rng \in 0..(RngPeriod - 1)
    /\ history = <<>>
    /\ threads = [t \in Threads |-> IdleThread]
    /\ disk = EmptyDisk

\* what an entry point leaves behind
EntryDone(name, days, r) ==
    /\ op' = name
    /\ inp' = [n_paths |-> simulator.n_simulations, days |-> days]
    /\ trace' = [called |-> r.called, stages |-> r.stages]
    /\ response' = Outcome(r)
    /\ simulator' = r.self
    /\ rng' = r.rng
    /\ UNCHANGED <<history, threads, disk>>

CallPredictFund ==
    /\ Idle
    /\ \E fund_id \in {1, 3, 4}, days \in 0..(MaxHorizon + 1),
          sample \in SampleChoices(simulator.n_simulations) :
         EntryDone("predict_fund", days, predict_fund(simulator, rng, fund_id, days, sample))

CallStressTest ==
    /\ Idle
    /\ \E fund_id \in {1, 3, 4}, sample \in SampleChoices(simulator.n_simulations) :
         EntryDone("api_stress_test", TradingYear,
                   api_stress_test(simulator, rng, fund_id, sample))

CallGenerateFundInsight ==
    /\ Idle
    /\ \E fund_id \in {1, 3}, horizon \in {1, 2},
          sample \in SampleChoices(simulator.n_simulations) :
         EntryDone("generate_fund_insight", horizon * TradingYear,
                   generate_fund_insight(simulator, rng, MfData[fund_id], 100, horizon,
                                         sample))

NextApi ==
    \/ CallPredictFund
    \/ CallStressTest
    \/ CallGenerateFundInsight

\* one request to an entry point of the simulator
SpecApi == InitApi /\ [][NextApi]_vars

SimEntryOps == {"predict_fund", "api_stress_test", "generate_fund_insight"}

\* C19: a request whose n_simulations x days exceeds the ceiling is
\* rejected before any path is simulated, whatever entry point it came
\* through.
C19_AboveCeilingRejected ==
    (op \in SimEntryOps /\ trace.called /\ inp.n_paths * inp.days > SimulationCeiling) =>
       (response.status = "raised" /\ trace.stages = <<>>)


(***************************************************************************)
(* Two requests inside predict_nav of the process-wide simulator, one      *)
(* statement at a time: the server handles each request in its own thread. *)
(***************************************************************************)
\* thread t runs statement `at` of predict_nav and goes on to `to`
Step(t, at, to, fields) ==
    /\ threads[t].pc = at
    /\ threads' = [threads EXCEPT ![t] = fields @@ [pc |-> to] @@ threads[t]]

\* a request calls monte_carlo.predict_nav(..., days=days)
Enter(t) ==
    /\ \E days \in 1..MaxHorizon : Step(t, "idle", "save", [days |-> days])
    /\ UNCHANGED <<op, inp, trace, response, simulator, rng, history, disk>>

\* original_horizon = self.time_horizon
SaveHorizon(t) ==
    /\ Step(t, "save", "set", [original_horizon |-> simulator.time_horizon])
    /\ UNCHANGED <<op, inp, trace, response, simulator, rng, history, disk>>

\* self.time_horizon = days
SetHorizon(t) ==
    /\ Step(t, "set", "simulate", [days |-> threads[t].days])
    /\ simulator' = [simulator EXCEPT !.time_horizon = threads[t].days]
    /\ UNCHANGED <<op, inp, trace, response, rng, history, disk>>

\* simulations = self.simulate_gbm(...) with the horizon the simulator holds
\* now, then the statistics and the draw of the sample paths
Simulate(t) ==
    /\ Step(t, "simulate", "restore", [simulated |-> simulator.time_horizon])
    /\ rng' = (rng + simulator.n_simulations * simulator.time_horizon + 1) % RngPeriod
    /\ UNCHANGED <<op, inp, trace, response, simulator, history, disk>>

\* self.time_horizon = original_horizon
Restore(t) ==
    /\ Step(t, "restore", "done", [days |-> threads[t].days])
    /\ simulator' = [simulator EXCEPT !.time_horizon = threads[t].original_horizon]
    /\ UNCHANGED <<op, inp, trace, response, rng, history, disk>>

NextThreads ==
    \E t \in Threads :
       \/ Enter(t)
       \/ SaveHorizon(t)
       \/ SetHorizon(t)
       \/ Simulate(t)
       \/ Restore(t)

\* concurrent requests to the simulator
SpecThreads == Init /\ [][NextThreads]_vars

BothDone == \A t \in Threads : threads[t].pc = "done"

\* C20: for every interleaving of two predict_nav calls with different
\* days, each call simulates paths of its own days length, and when both
\* have finished the simulator's time_horizon is what it was before.
C20_CallsDoNotShareHorizon ==
    /\ \A t \in Threads :
          threads[t].pc \in {"restore", "done"} => threads[t].simulated = threads[t].days
    /\ BothDone => simulator.time_horizon = MaxHorizon


\* the terminal values of every path the last predict_nav simulated
AllTerminals ==
    TerminalCents(trace.simulations, response.value.current_nav, inp.mu, inp.sigma,
                  response.value.prediction_days)

\* C21: every predict_nav that returns gives SampleCount sample paths, they
\* are the simulated paths at SampleCount different indices, each as long as
\* the horizon, and the percentiles, VaR, CVaR and probability of loss are
\* those of all n_simulations terminal values.
C21_SamplesApartFromStatistics ==
    PredictReturned =>
       /\ Len(response.value.sample_paths) = SampleCount
       /\ \A j, k \in 1..SampleCount : j # k => inp.sample[j] # inp.sample[k]
       /\ \A k \in 1..SampleCount :
             /\ Len(response.value.sample_paths[k]) = response.value.prediction_days
             /\ response.value.sample_paths[k] = trace.simulations[inp.sample[k]]
       /\ Len(AllTerminals) = response.value.n_simulations
       /\ response.value.risk_metrics = RiskMetrics(AllTerminals, 100 * response.value.current_nav)
       /\ response.value.percentiles = PercentilesOf(AllTerminals)

\* a result over more paths than are sampled, whose sampled paths differ
\* and whose statistics differ from those of the sample
C21_Witness ==
    /\ PredictReturned
    /\ response.value.n_simulations > SampleCount
    /\ response.value.sample_paths[1] # response.value.sample_paths[2]
    /\ response.value.percentiles #
          PercentilesOf(TerminalCents(response.value.sample_paths, response.value.current_nav,
                                      inp.mu, inp.sigma, response.value.prediction_days))


\* create_portfolio_optimizer was called directly and returned
OrchReturned == op = "create_portfolio_optimizer" /\ response.status = "returned"

\* the instruments whose optimizer weight is above 1%
MaterialFunds ==
    {i \in 1..Len(inp.fund_data) :
        100 * trace.optimization_result.optimal_weights.v[i]
           > trace.optimization_result.optimal_weights.d}

\* C22: the allocations create_portfolio_optimizer returns are in
\* non-increasing order of weight and hold exactly one entry for every
\* instrument whose optimizer weight is above 1%, and no other entry.
C22_AllocationsSortedAndMaterial ==
    OrchReturned =>
       /\ \A j, k \in 1..Len(response.value.allocations) :
             j < k => response.value.allocations[j].weight
                         >= response.value.allocations[k].weight
       /\ Len(response.value.allocations) = Cardinality(MaterialFunds)
       /\ \A i \in MaterialFunds :
             \E k \in 1..Len(response.value.allocations) :
                response.value.allocations[k].fund_id = inp.fund_data[i].fund_id
       /\ \A k \in 1..Len(response.value.allocations) :
             \E i \in MaterialFunds :
                response.value.allocations[k].fund_id = inp.fund_data[i].fund_id

\* a result over two instruments that left the first one out
C22_Witness ==
    /\ OrchReturned
    /\ Len(inp.fund_data) = 2
    /\ MaterialFunds = {2}
    /\ Len(response.value.allocations) = 1
    /\ response.value.allocations[1].fund_id = inp.fund_data[2].fund_id


RecommendReturned == op = "recommend_black_litterman" /\ response.status = "returned"

\* a / b <= c / d for the rationals <<a, b>> and <<c, d>> with b, d > 0
RatLeq(x, y) == x[1] * y[2] <= y[1] * x[2]

black_scholes_gbm_forecast(horizon) ==
    Force([t \in 1..horizon |-> PriceCents(100, 0, 0, [t |-> t, z |-> 0])])

\* np.percentile(sims, q, axis=0): one value per step, as numerators over
\* 100 of hundredths; empty is what NumPy does without any path
PercentileBand(sims, q, horizon, empty) ==
    Force([t \in 1..horizon |->
             IF Len(sims) = 0 THEN empty
             ELSE PercentileOfSorted(
                    SortAsc(TerminalCents(sims, 100, 0, 1, t)), q)])

\* every path is returned, whatever samples_to_return is
SamplesToTakeAll(samples_to_return, n_sim) == n_sim

\* k = min(req.samples_to_return, sims.shape[0])
SamplesToTake(samples_to_return, n_sim) == Min2(samples_to_return, n_sim)

\* the index lists rs.choice(n, size=k, replace=False) may draw: the first k
\* indices, or the last k backwards
IndexChoices(n, k) == {[j \in 1..k |-> j], [j \in 1..k |-> n + 1 - j]}

\* the response of /predict for the simulated paths
PredictResponse(req, sims, idx, empty) ==
    [ok |-> TRUE, err |-> "", sims |-> sims, idx |-> idx,
     value |->
       [http |-> 200,
        monte_carlo |->
          [simulations_shape |-> <<req.n_sim, req.horizon>>,
           percentile_10 |-> PercentileBand(sims, 10, req.horizon, empty),
           percentile_50 |-> PercentileBand(sims, 50, req.horizon, empty),
           percentile_90 |-> PercentileBand(sims, 90, req.horizon, empty)],
        gbm_expected |-> black_scholes_gbm_forecast(req.horizon),
        samples |->
          IF req.include_samples /\ req.samples_to_return > 0
          THEN [none |-> FALSE, list |-> Force([j \in 1..Len(idx) |-> sims[idx[j]]])]
          ELSE None]]

\* POST /predict.  found: the NAV file of the scheme exists; idx: what
\* rs.choice draws
predict(req, found, idx, empty) ==
    IF ~found
    THEN [ok |-> TRUE, err |-> "", sims |-> <<>>, idx |-> <<>>,
          value |-> [http |-> 404, detail |-> "NAV file not found"]]
    ELSE Let(monte_carlo_forecast(3, req.n_sim, req.horizon, HistorySeed), LAMBDA sims :
             IF ~sims.ok THEN [ok |-> FALSE, err |-> sims.err, sims |-> <<>>, idx |-> <<>>]
             ELSE IF req.n_sim = 0 /\ req.horizon > 0 /\ empty = "raises"
             THEN [ok |-> FALSE, err |-> "IndexError", sims |-> <<>>, idx |-> <<>>]
             ELSE PredictResponse(req, sims.sims, idx, "nan"))

PredictRequests ==
    [scheme_code : {"S1"}, horizon : 0..MaxHorizon, n_sim : -1..3,
     include_samples : BOOLEAN, samples_to_return : -1..4]

CallPredict ==
    /\ Idle
    /\ \E req \in PredictRequests, found \in BOOLEAN, empty \in {"nan", "raises"} :
         \E idx \in IndexChoices(req.n_sim,
                                 Max2(SamplesToTake(req.samples_to_return, req.n_sim), 0)) :
            \E r \in {predict(req, found, idx, empty)} :
               /\ op' = "predict"
               /\ inp' = [req |-> req, found |-> found]
               /\ trace' = [stages |-> IF r.ok /\ found THEN <<"simulate">> ELSE <<>>,
                            sims |-> r.sims, idx |-> r.idx]
               /\ response' = Outcome(r)
    /\ UNCHANGED <<simulator, rng, history, threads, disk>>


NextPredict == CallPredict

\* one request to POST /predict
SpecPredict == Init /\ [][NextPredict]_vars

\* /predict answered 200
PredictAnswered == op = "predict" /\ response.status = "returned" /\ response.value.http = 200

\* C24: POST /predict with include_samples and samples_to_return > 0 returns
\* min(samples_to_return, n_sim) paths simulated at different indices, so
\* never more than samples_to_return; otherwise samples is null; the
\* percentile bands are those of all n_sim paths in either case.
C24_SamplesBoundedAndApart ==
    PredictAnswered =>
       /\ IF inp.req.include_samples /\ inp.req.samples_to_return > 0
          THEN /\ ~response.value.samples.none
               /\ Len(response.value.samples.list) <= inp.req.samples_to_return
               /\ Len(response.value.samples.list) <= inp.req.n_sim
               /\ \/ Len(response.value.samples.list) = inp.req.samples_to_return
                  \/ Len(response.value.samples.list) = inp.req.n_sim
               /\ \A j, k \in 1..Len(response.value.samples.list) :
                     j # k => trace.idx[j] # trace.idx[k]
               /\ \A j \in 1..Len(response.value.samples.list) :
                     response.value.samples.list[j] = trace.sims[trace.idx[j]]
          ELSE response.value.samples = None
       /\ Len(trace.sims) = inp.req.n_sim
       /\ \A t \in 1..inp.req.horizon :
             inp.req.n_sim > 0 =>
                /\ response.value.monte_carlo.percentile_10[t]
                      = PercentileOfSorted(SortAsc(TerminalCents(trace.sims, 100, 0, 1, t)), 10)
                /\ response.value.monte_carlo.percentile_90[t]
                      = PercentileOfSorted(SortAsc(TerminalCents(trace.sims, 100, 0, 1, t)), 90)

\* fewer samples were asked for than paths were simulated
C24_Witness ==
    /\ PredictAnswered
    /\ inp.req.include_samples
    /\ inp.req.samples_to_return = 2 /\ inp.req.n_sim = 3 /\ inp.req.horizon > 0
    /\ Len(response.value.samples.list) = 2


(***************************************************************************)
(* The backtest on an explicit aggregated dataset: one row per date with   *)
(* ret_1d of the schemes S1 and S2 in percent, rows in date order.         *)
(***************************************************************************)
AnnualizeFactor == 252

ReturnRows == {<<1, 0>>, <<0, 1>>, <<2, 1>>, <<-1, 1>>}

ColumnSum(rows, i) == SumSeq([k \in 1..Len(rows) |-> rows[k][i]])

ProductSum(rows, i, j) == SumSeq([k \in 1..Len(rows) |-> rows[k][i] * rows[k][j]])

\* estimate_prior: pi = returns_df.mean() * 252, cov = returns_df.cov() * 252
\* (the sample covariance, over n - 1), for n >= 2 rows
estimate_prior(rows) ==
    [codes |-> <<"S1", "S2">>,
     pi |-> VNorm(Vec([i \in 1..2 |-> AnnualizeFactor * ColumnSum(rows, i)],
                      100 * Len(rows))),
     cov |-> MNorm(Mat([i \in 1..2 |-> [j \in 1..2 |->
                          AnnualizeFactor * (Len(rows) * ProductSum(rows, i, j)
                                               - ColumnSum(rows, i) * ColumnSum(rows, j))]],
                       10000 * Len(rows) * (Len(rows) - 1)))]

\* past_df = agg[(agg['date'] >= past_start) & (agg['date'] <= past_end)]:
\* the rows dated t - lookback_days .. t
PastRows(agg, t, lookback_days) == SubSeq(agg, Max2(t - lookback_days, 1), Min2(t, Len(agg)))

\* the allocation of the rebalance date t: recommend_black_litterman loads
\* the aggregated dataset itself, past_df is not handed to it
RebalanceAllocation(agg, t, lookback_days, top_k) ==
    recommend_black_litterman(estimate_prior(agg), 1, top_k, [c \in {"S1", "S2"} |-> "ok"])

\* what the step keeps of a recommendation
AllocationOf(rec) == IF rec.ok THEN rec.value.allocations ELSE <<rec.err>>

\* the same rebalance date on two datasets that share their rows up to it
CallRebalanceOnTwoDatasets ==
    /\ Idle
    /\ \E past \in TuplesOver(ReturnRows, 3), later1 \in ReturnRows, later2 \in ReturnRows :
         /\ op' = "rebalance_on_two_datasets"
         /\ inp' = [agg1 |-> Append(past, later1), agg2 |-> Append(past, later2),
                    t |-> 3, lookback_days |-> 3]
         /\ response' =
              [status |-> "returned",
               value |-> <<AllocationOf(RebalanceAllocation(Append(past, later1), 3, 3, 2)),
                           AllocationOf(RebalanceAllocation(Append(past, later2), 3, 3, 2))>>]
    /\ trace' = <<>>
    /\ UNCHANGED <<simulator, rng, history, threads, disk>>

NextLookahead == CallRebalanceOnTwoDatasets

SpecLookahead == Init /\ [][NextLookahead]_vars

\* C25: two aggregated datasets that agree on every row dated within the
\* lookback window of a rebalance date yield the same allocation at it,
\* whatever rows they hold after it.
C25_AllocationFromWindowOnly ==
    (op = "rebalance_on_two_datasets"
       /\ PastRows(inp.agg1, inp.t, inp.lookback_days)
            = PastRows(inp.agg2, inp.t, inp.lookback_days)) =>
       response.value[1] = response.value[2]

(***************************************************************************)
(* The result of the rolling backtest (raptor/src/backtest.py).            *)
(***************************************************************************)

BacktestCalled == op = "backtest_black_litterman"

BacktestReturned == BacktestCalled /\ response.status = "returned"

\* the recommendation every rebalance date of the last backtest gets
StepRecommendation ==
    recommend_black_litterman(inp.prior, 1, inp.top_k, [c \in {"S1", "S2"} |-> "ok"])

\* the rebalance steps of the last backtest that succeeded, in date order:
\* the recommendation returned an allocation and the next period has the
\* NAV rows of one daily return at least
SucceededSteps ==
    SelectSeq([t \in 1..Len(inp.futures) |-> t],
              LAMBDA t : /\ StepRecommendation.ok
                         /\ Len(StepRecommendation.value.allocations) > 0
                         /\ inp.futures[t] >= 2)

\* C26: whenever backtest_black_litterman returns, the result holds the
\* metrics and a non-empty portfolio_nav whose points come from exactly the
\* rebalance steps that succeeded, and periods has one entry per such step
\* in rebalance-date order, the failing steps in between being skipped; when
\* the dataset is too short or no step succeeds it raises ValueError.
C26_BacktestResultFromSucceededSteps ==
    BacktestCalled =>
       /\ response.status = "returned" =>
             /\ inp.enough
             /\ response.value.metrics = MetricKeys
             /\ response.value.portfolio_nav # <<>>
             /\ response.value.periods = SucceededSteps
             /\ {response.value.portfolio_nav[i].step :
                    i \in 1..Len(response.value.portfolio_nav)}
                  = {SucceededSteps[k] : k \in 1..Len(SucceededSteps)}
       /\ (~inp.enough \/ SucceededSteps = <<>>) =>
             /\ response.status = "raised"
             /\ response.error = "ValueError"

\* a backtest returned the period of its second rebalance date after the
\* first one had no future NAV data
C26_Witness ==
    /\ BacktestReturned
    /\ Len(inp.futures) = 2
    /\ inp.futures[1] = 0
    /\ response.value.periods = <<2>>
    /\ Len(response.value.portfolio_nav) = 2

(***************************************************************************)
(* The model endpoints of the raptor API (raptor/src/api.py): POST         *)
(* /train_pooled, POST /predict_model, and the feature generation of       *)
(* preprocessing.py, over the files they leave on disk.                    *)
(***************************************************************************)

\* the names bound at module level in api.py: its imports and its logger
\* and app
ApiGlobals ==
    {"FastAPI", "HTTPException", "CORSMiddleware", "BaseModel", "Optional", "List",
     "data_loader", "preprocessing", "monte_carlo", "black_scholes", "models",
     "logging", "logger", "app"}

\* the schemes with a raw NAV file, in the order of sorted(raw_dir.glob(...))
RawSchemes == <<"S1", "S2", "S3">>

\* the scheme codes a request can name
RequestSchemes == {"S1", "S2", "S3", "S9"}

\* models.load_pooled_model()
load_pooled_model(files) ==
    IF ~files.pooled THEN [ok |-> FALSE, err |-> "FileNotFoundError"]
    ELSE [ok |-> TRUE, err |-> "", value |-> "artifact"]

\* the body of the try block of predict_model: the exception it raises, or
\* the dictionary it returns
PredictModelBody(req, files, globals) ==
    IF req.scheme_code \notin files.features
    THEN [ok |-> FALSE, err |-> "HTTPException", status_code |-> 404]
    ELSE IF "pd" \notin globals THEN [ok |-> FALSE, err |-> "NameError"]
    ELSE IF ~load_pooled_model(files).ok
         THEN [ok |-> FALSE, err |-> load_pooled_model(files).err]
    ELSE [ok |-> TRUE, err |-> "",
          value |-> [scheme_code |-> req.scheme_code, pred_target_ret |-> "float"]]

\* the except clauses of predict_model, in their order: the last one takes
\* every Exception, an HTTPException raised inside the try block included
PredictModelExcept(r) ==
    IF r.ok THEN [status_code |-> 200, body |-> r.value]
    ELSE IF r.err = "FileNotFoundError" THEN [status_code |-> 404, body |-> [detail |-> r.err]]
    ELSE IF r.err = "ModuleNotFoundError" THEN [status_code |-> 501, body |-> [detail |-> r.err]]
    ELSE [status_code |-> 500, body |-> [detail |-> r.err]]

\* POST /predict_model
predict_model(req, files) == PredictModelExcept(PredictModelBody(req, files, ApiGlobals))

\* POST /train_pooled: data tells whether train_pooled_rf assembles a
\* training record, sklearn whether scikit-learn can be imported
train_pooled(data, sklearn) ==
    IF ~data THEN [status_code |-> 500, body |-> [detail |-> "ValueError"], saved |-> FALSE]
    ELSE IF ~sklearn
         THEN [status_code |-> 501, body |-> [detail |-> "ModuleNotFoundError"], saved |-> FALSE]
    ELSE [status_code |-> 200, body |-> [mae |-> "float", rmse |-> "float"], saved |-> TRUE]

\* the codes of the first `limit` raw files, of all of them without a limit
GeneratedCodes(limit) ==
    {RawSchemes[i] : i \in 1..(IF limit = 0 THEN Len(RawSchemes) ELSE Min2(limit, Len(RawSchemes)))}

\* client.post('/train_pooled', ...)
PostTrainPooled ==
    /\ \E data \in BOOLEAN, sklearn \in BOOLEAN :
         \E r \in {train_pooled(data, sklearn)} :
            /\ op' = "train_pooled"
            /\ inp' = [data |-> data, sklearn |-> sklearn]
            /\ response' = [status |-> "responded", status_code |-> r.status_code, body |-> r.body]
            /\ disk' = [disk EXCEPT !.pooled = @ \/ r.saved]
    /\ trace' = <<>>
    /\ UNCHANGED <<simulator, rng, history, threads>>

\* preprocessing.generate_all_features(limit)
CallGenerateAllFeatures ==
    /\ \E limit \in 0..Len(RawSchemes) :
         /\ op' = "generate_all_features"
         /\ inp' = [limit |-> limit]
         /\ disk' = [disk EXCEPT !.features = @ \cup GeneratedCodes(limit)]
    /\ response' = [status |-> "returned"]
    /\ trace' = <<>>
    /\ UNCHANGED <<simulator, rng, history, threads>>

\* client.post('/predict_model', json={'scheme_code': ..., 'horizon': ...})
PostPredictModel ==
    /\ \E scheme_code \in RequestSchemes, horizon \in {7, 30} :
         \E r \in {predict_model([scheme_code |-> scheme_code, horizon |-> horizon], disk)} :
            /\ op' = "predict_model"
            /\ inp' = [scheme_code |-> scheme_code, horizon |-> horizon]
            /\ response' = [status |-> "responded", status_code |-> r.status_code, body |-> r.body]
    /\ trace' = <<>>
    /\ UNCHANGED <<simulator, rng, history, threads, disk>>

NextModelApi ==
    \/ PostTrainPooled
    \/ CallGenerateAllFeatures
    \/ PostPredictModel

SpecModelApi == Init /\ [][NextModelApi]_vars

PredictModelAnswered == op = "predict_model" /\ response.status = "responded"

\* C27: once the pooled model is trained and the feature file of a scheme
\* is generated, POST /predict_model for that scheme answers 200 with a
\* body that holds pred_target_ret.
C27_PredictModelAnswersAfterTraining ==
    (PredictModelAnswered /\ disk.pooled /\ inp.scheme_code \in disk.features) =>
       /\ response.status_code = 200
       /\ "pred_target_ret" \in DOMAIN response.body

\* C28: POST /predict_model answers 404, not 500, for a scheme without a
\* feature file, and 404 when the pooled-model artifact is missing.
C28_MissingFilesAnswerNotFound ==
    (PredictModelAnswered /\ (inp.scheme_code \notin disk.features \/ ~disk.pooled)) =>
       response.status_code = 404

\* C29: a call of predict_nav leaves the time_horizon of the simulator as
\* it was before the call, whether the call returns or raises.
C29_PredictNavRestoresHorizon ==
    [][op' = "predict_nav" => simulator'.time_horizon = simulator.time_horizon]_vars

\* the sum of the rationals <<num, den>> of a list, as a rational
RECURSIVE RatSum(_)
RatSum(qs) ==
    IF qs = <<>> THEN <<0, 1>>
    ELSE Let(RatSum(Tail(qs)), LAMBDA t :
             Rat(<<Head(qs)[1] * t[2] + t[1] * Head(qs)[2], Head(qs)[2] * t[2]>>))

ReturnedWeights ==
    [k \in 1..Len(response.value.allocations) |-> response.value.allocations[k].weight]

ReturnedAmounts ==
    [k \in 1..Len(response.value.allocations) |->
       response.value.allocations[k].allocated_amount]

\* C30: whatever weight vector markowitz_weights produced, one with negative
\* entries included, every weight recommend_black_litterman returns lies in
\* [0, 1], the returned weights sum to at most 1, every allocated_amount is
\* non-negative and the allocated amounts sum to at most amount.
C30_ReturnedWeightsAreShares ==
    RecommendReturned =>
       /\ \A k \in 1..Len(ReturnedWeights) :
             /\ RatLeq(<<0, 1>>, ReturnedWeights[k])
             /\ RatLeq(ReturnedWeights[k], <<1, 1>>)
             /\ RatLeq(<<0, 1>>, ReturnedAmounts[k])
       /\ RatLeq(RatSum(ReturnedWeights), <<1, 1>>)
       /\ RatLeq(RatSum(ReturnedAmounts), <<inp.amount, 1>>)

\* a recommendation returned both schemes after markowitz_weights gave one
\* of them a negative weight and the other a weight above one
C30_Witness ==
    /\ RecommendReturned
    /\ \E i \in 1..Len(trace.weights.v) : trace.weights.v[i] < 0
    /\ \E i \in 1..Len(trace.weights.v) : trace.weights.v[i] > trace.weights.d
    /\ Len(response.value.allocations) = 2
    /\ response.value.allocations[1].weight = <<1, 1>>
    /\ response.value.allocations[2].weight = <<0, 1>>
====
